---- MODULE Spec2Model ----
(***************************************************************************)
(* Entitlement core of orbmem: the api_keys and payments tables, and the   *)
(* request handlers that write them (create-first, regenerate, payment     *)
(* verify, Razorpay webhook), each as a sequence of SQL statements run in  *)
(* a SQLAlchemy session against PostgreSQL (READ COMMITTED).               *)
(*                                                                         *)
(* One handler invocation is one process p.  Its session "db" is tx[p]:    *)
(* the ledger row it has inserted and not yet committed (pay), the rows    *)
(* its UPDATE has locked (locked) and the rows an UPDATE that waits for a  *)
(* lock has found (scan).  create_api_key opens a session of its own and   *)
(* commits it before it returns.                                           *)
(*                                                                         *)
(* Spec is the behaviour of these handlers under concurrent requests.      *)
(* GateSpec is the way of one request through the front door of a route    *)
(* behind the auth gate: the query-parameter middleware, the dependency    *)
(* require_auth (local or cloud mode), then the route.                     *)
(***************************************************************************)
EXTENDS Integers, Sequences, FiniteSets, TLC

\* ------------------------------------------------------------------ bounds
MaxReqs == 2        \* handler invocations in one behaviour
NumWorkers == 2     \* server worker processes (one event loop each)
MaxFaults == 1      \* database statements that raise in one behaviour

\* Handler 0 is the create-first call that, in the behaviours that start from
\* a tenant who already owns a key, gave tenant U1 that key.
Handlers == 1..MaxReqs
Procs == 0..MaxReqs
Workers == 1..NumWorkers

\* ------------------------------------------------------------------ inputs
Tenants == {"U1", "U2"}
PaymentIds == {"PAY_A", "PAY_B"}

API_KEY_PREFIX == "orbynt-"

\* The order the payment processor holds for a payment: create_order stores
\* the tenant and the plan in the order's notes and the amount of the plan.
amount_map(plan) == IF plan = "monthly" THEN 49900 ELSE 499900

OrderOf(pid) ==
    IF pid = "PAY_A"
    THEN [oid |-> "order_A", uid |-> "U1", plan |-> "monthly",
          amount |-> amount_map("monthly")]
    ELSE [oid |-> "order_B", uid |-> "U1", plan |-> "yearly",
          amount |-> amount_map("yearly")]

\* lower that leaves the name as it is.
lower_Identity(name) == name

\* str.lower() on the query parameter names and plan names of the model.
lower(name) ==
    CASE name = "ApiKey" -> "apikey"
      [] name = "X-API-KEY" -> "x-api-key"
      [] OTHER -> name

\* The payment entity in the payload of a webhook: the processor sends the
\* payment's id, its order, the amount captured (the order's amount) and the
\* notes of the order.
PaymentEntity(pid) ==
    [id |-> pid, order_id |-> OrderOf(pid).oid, amount |-> OrderOf(pid).amount,
     notes |-> [uid |-> OrderOf(pid).uid, plan |-> OrderOf(pid).plan]]

\* What verify_payment writes of a payment: the order id of the signed
\* payload, order["amount"] and notes.get("plan", "paid").lower() of the
\* order it fetches.
VerifyFields(pid) ==
    LET order == OrderOf(pid)
    IN  [oid |-> order.oid, amount |-> order.amount, plan |-> lower(order.plan)]

\* WebhookFields with the plan's default in place of the plan of the notes.
WebhookFields_DefaultPlan(pid) ==
    LET payment == PaymentEntity(pid)
    IN  [oid |-> payment.order_id, amount |-> payment.amount, plan |-> "paid"]

\* What razorpay_webhook writes of a payment: payment.get("order_id"),
\* payment.get("amount") and notes.get("plan", "paid") of the payment entity.
WebhookFields(pid) ==
    LET payment == PaymentEntity(pid)
    IN  [oid |-> payment.order_id, amount |-> payment.amount,
         plan |-> payment.notes.plan]

\* ------------------------------------------------------------------ state
VARIABLES
    keys,       \* table api_keys, committed rows, in insertion order (id = index)
    payments,   \* table payments, committed rows, in insertion order
    pc,         \* pc[p]: the statement handler p executes next
    req,        \* req[p]: the request p serves
    tx,         \* tx[p]: uncommitted writes and row locks of p's session db
    resp,       \* resp[p]: the response p returned
    before,     \* before[p]: the handlers that had returned when p started
    loop,       \* loop[w]: the async handler running on worker w's event loop
    faults,     \* statements that have raised so far
    cfg,        \* load_config(): cfg.mode is the deployment mode
    http,       \* http[p]: query, headers and request.state.auth of request p
    cache,      \* _OCDB_CACHE: tenant id -> the handle registered for it
    usage,      \* table api_usage: api_key_id -> count
    ocdbs,      \* ocdbs[u]: the OCDB handles constructed for uid u, in order
    memory,     \* table memory of ocdb.sqlite3, the file every handle opens
    graph,      \* the nodes the graph backend holds
    points,     \* the points the safety time series holds
    alone,      \* the stores had no tenant but Observer written to them
    clock,      \* datetime.utcnow() of the memory backend
    engine,     \* the engine the data requests of this behaviour go to
    thr         \* thr[p]: locals and result of the route that thread p runs

\* The stores behind the handles.
data_vars == <<ocdbs, memory, graph, points, alone, clock, engine, thr>>

vars == <<keys, payments, pc, req, tx, resp, before, loop, faults, cfg, http, cache,
          usage, data_vars>>

\* What the entitlement handlers leave alone.
gate_vars == <<cfg, http, cache, usage, data_vars>>

NoSecret == [prefix |-> "", token |-> 0]
NoReq == [kind |-> "none", uid |-> "none", pid |-> "none", wk |-> 0,
          sig |-> "none", event |-> "none"]
NoTx == [pay |-> << >>, locked |-> {}, scan |-> << >>]
NoResp == [status |-> "none", secret |-> NoSecret, how |-> "none"]
NoAuth == [ok |-> FALSE, status |-> "none", why |-> "none", uid |-> "none",
           api_key_id |-> 0, unlimited |-> FALSE, calls |-> << >>]
NoHttp == [query |-> {}, token |-> "none", authz |-> [scheme |-> "", key |-> NoSecret],
           now |-> 0, auth |-> NoAuth]
\* ocdb: the handle the route holds, ocdbs[uid][ocdb] (0: None); out: what the route read; ref:
\* what it would have read from alone; calls: the calls the request made, of
\* require_auth to its collaborators, then of the handle to its backends; tracked: usage_tracker has seen the response;
\* pending: the api_usage row the open session of increment_usage has
\* written (0: none); recorded: increment_usage has committed.
\* An empty dict, an empty table.
NoCache == [u \in {} |-> 0]
\* No handle has been constructed, for a tenant or for the uid None.
NoHandles == [u \in Tenants \cup {"none"} |-> << >>]
\* The stores with nothing written to them.
NoStores == [memory |-> {}, index |-> << >>, graph |-> {}]
NoThr == [ocdb |-> 0, out |-> << >>, ref |-> << >>, calls |-> << >>, tracked |-> FALSE,
          pending |-> 0, recorded |-> FALSE]

\* ------------------------------------------------------------------ db/api_keys.py
\* hashlib.sha256(raw_key.encode()).hexdigest(): a one-way, collision-free
\* digest, a string of hex digits that the raw key determines. The digits
\* are modelled by the six items of a sequence.
hash_key(raw_key) == <<"sha256", "hex", raw_key.prefix, "0", raw_key.token, "f">>

\* secrets.token_urlsafe(32) draws 256 random bits: no two calls return the
\* same token. A handler calls generate_api_key at most once, so the token
\* handler p draws is modelled by p.
generate_api_key(p) == [prefix |-> API_KEY_PREFIX, token |-> p]

\* expires_at of a key created without duration_days (no caller passes it).
NULL == 0

\* The row an INSERT INTO api_keys writes. by is not a column: it records
\* the handler that wrote the row.
KeyRow(uid, raw_key, is_unlimited, plan, by) ==
    [uid |-> uid, hash |-> hash_key(raw_key), active |-> TRUE,
     unlimited |-> is_unlimited, expires |-> NULL, plan |-> plan, by |-> by]

\* SELECT ... FROM api_keys WHERE api_key_hash = :hash LIMIT 1
get_api_key_record(h) ==
    LET hit == {i \in DOMAIN keys : keys[i].hash = h}
    IN  IF hit = {} THEN 0 ELSE CHOOSE i \in hit : \A j \in hit : i <= j

KeyIdsOf(uid) == {i \in DOMAIN keys : keys[i].uid = uid}
ActiveKeysOf(uid) == {i \in KeyIdsOf(uid) : keys[i].active}

\* ------------------------------------------------------------------ core/auth.py
\* The deployment mode (OCDB_MODE). The entitlement routes are served in
\* cloud mode.
OCDB_MODE == "cloud"

\* The identity assertion of tenant u is modelled by u itself; any other
\* token is one the identity provider rejects.
verify_firebase_token(token) == IF token \in Tenants THEN token ELSE "invalid"

NoHeader == [scheme |-> "", key |-> NoSecret]
Bearer(raw_key) == [scheme |-> "Bearer", key |-> raw_key]

\* raise AuthError(why), after the calls the request has made so far to the
\* identity provider ("verify_id_token") and to the credential store
\* ("get_api_key_record").
Rejected(why, calls) == [NoAuth EXCEPT !.why = why, !.calls = calls]

\* datetime.now(): the clock advances with every response.
Clock == Cardinality({q \in Procs : pc[q] = "done"})

\* MissingHeaders with "and" in place of "or".
MissingHeaders_Both(token, authz) == authz = NoHeader /\ token = "none"

\* if not api_auth or not firebase_token
MissingHeaders(token, authz) == authz = NoHeader \/ token = "none"

\* OwnerMismatch with the comparison left out.
OwnerMismatch_Never(record, uid) == FALSE

\* if record["user_id"] != uid
OwnerMismatch(record, uid) == record.uid # uid

\* Expired without the test of is_unlimited.
Expired_IgnoresUnlimited(record, now) == record.expires # NULL /\ record.expires < now

\* if not record["is_unlimited"] and record["expires_at"]:
\*     if record["expires_at"] < now
Expired(record, now) ==
    ~record.unlimited /\ record.expires # NULL /\ record.expires < now

\* validate_request with the key looked up before its format is checked.
validate_request_LookupFirst(mode, token, authz, now) ==
    LET uid == verify_firebase_token(token)
        id  == get_api_key_record(hash_key(authz.key))
    IN  IF mode = "local"
            THEN [NoAuth EXCEPT !.ok = TRUE, !.why = "local", !.unlimited = TRUE]
        ELSE IF MissingHeaders(token, authz)
            THEN Rejected("Missing Authorization or X-Firebase-Token", << >>)
        ELSE IF authz.scheme # "Bearer"
            THEN Rejected("Invalid Authorization header format", << >>)
        ELSE IF uid = "invalid"
            THEN Rejected("Invalid Firebase token", <<"verify_id_token">>)
        ELSE IF id = 0
            THEN Rejected("Invalid API key", <<"verify_id_token", "get_api_key_record">>)
        ELSE IF authz.key.prefix # API_KEY_PREFIX
            THEN Rejected("Invalid API key prefix",
                          <<"verify_id_token", "get_api_key_record">>)
        ELSE IF OwnerMismatch(keys[id], uid)
            THEN Rejected("API key does not belong to this user",
                          <<"verify_id_token", "get_api_key_record">>)
        ELSE IF ~keys[id].active
            THEN Rejected("API key is disabled",
                          <<"verify_id_token", "get_api_key_record">>)
        ELSE IF Expired(keys[id], now)
            THEN Rejected("API key expired", <<"verify_id_token", "get_api_key_record">>)
        ELSE [ok |-> TRUE, status |-> "none", why |-> "cloud", uid |-> uid,
              api_key_id |-> id, unlimited |-> keys[id].unlimited,
              calls |-> <<"verify_id_token", "get_api_key_record">>]

\* validate_request: the Authorization Context, or the reason of the first
\* check that fails. token is the X-Firebase-Token header ("none" when
\* absent), authz the Authorization header.
validate_request(mode, token, authz, now) ==
    LET uid == verify_firebase_token(token)
        id  == get_api_key_record(hash_key(authz.key))
    IN  IF mode = "local"
            THEN [NoAuth EXCEPT !.ok = TRUE, !.why = "local", !.unlimited = TRUE]
        ELSE IF MissingHeaders(token, authz)
            THEN Rejected("Missing Authorization or X-Firebase-Token", << >>)
        ELSE IF authz.scheme # "Bearer"
            THEN Rejected("Invalid Authorization header format", << >>)
        ELSE IF uid = "invalid"
            THEN Rejected("Invalid Firebase token", <<"verify_id_token">>)
        ELSE IF authz.key.prefix # API_KEY_PREFIX
            THEN Rejected("Invalid API key prefix", <<"verify_id_token">>)
        ELSE IF id = 0
            THEN Rejected("Invalid API key", <<"verify_id_token", "get_api_key_record">>)
        ELSE IF OwnerMismatch(keys[id], uid)
            THEN Rejected("API key does not belong to this user",
                          <<"verify_id_token", "get_api_key_record">>)
        ELSE IF ~keys[id].active
            THEN Rejected("API key is disabled",
                          <<"verify_id_token", "get_api_key_record">>)
        ELSE IF Expired(keys[id], now)
            THEN Rejected("API key expired", <<"verify_id_token", "get_api_key_record">>)
        ELSE [ok |-> TRUE, status |-> "none", why |-> "cloud", uid |-> uid,
              api_key_id |-> id, unlimited |-> keys[id].unlimited,
              calls |-> <<"verify_id_token", "get_api_key_record">>]

\* require_auth without the local branch.
require_auth_NoBypass(mode, token, authz, now) ==
    LET r == validate_request("cloud", token, authz, now)
    IN  [r EXCEPT !.status = IF r.ok THEN "ok" ELSE "Unauthorized"]

\* require_auth: the context it returns (ok), or the 401 Unauthorized it
\* raises for an AuthError.
require_auth(mode, token, authz, now) ==
    IF mode = "local"
    THEN [NoAuth EXCEPT !.ok = TRUE, !.status = "ok", !.why = "local", !.unlimited = TRUE]
    ELSE LET r == validate_request(mode, token, authz, now)
         IN  [r EXCEPT !.status = IF r.ok THEN "ok" ELSE "Unauthorized"]

\* The raw secrets the responses so far have shown to tenant uid.
Known(uid) ==
    {resp[p].secret : p \in {q \in Procs : pc[q] = "done" /\ req[q].uid = uid
                                           /\ resp[q].secret # NoSecret}}

\* ------------------------------------------------------------------ sessions
\* The handlers that have returned.
Done == {q \in Procs : pc[q] = "done"}

\* Row locks held by the open transactions of the other handlers.
LockedByOthers(p) == UNION {tx[q].locked : q \in Procs \ {p}}

\* CommittedKeys with an UPDATE that also rewrites the plan of the rows.
CommittedKeys_RewritesPlan(p) ==
    [i \in DOMAIN keys |->
        IF i \in tx[p].locked
        THEN [keys[i] EXCEPT !.active = FALSE, !.plan = "revoked"] ELSE keys[i]]

\* CommittedKeys with the UPDATE applied to the rows the table holds at the
\* commit.
CommittedKeys_RowsAtCommit(p) ==
    [i \in DOMAIN keys |->
        IF tx[p].locked # {} /\ keys[i].uid = req[p].uid
        THEN [keys[i] EXCEPT !.active = FALSE] ELSE keys[i]]

\* db.commit(): the session's pending updates and rows become committed.
CommittedKeys(p) ==
    [i \in DOMAIN keys |->
        IF i \in tx[p].locked THEN [keys[i] EXCEPT !.active = FALSE] ELSE keys[i]]

CommittedPayments(p) == payments \o tx[p].pay

\* A handler returns: its session is closed and, for the async webhook, the
\* event loop of its worker is free again. how names the branch of the
\* handler that answered (what its log line says): "select" for the
\* read-before-write check, "integrity" for the caught IntegrityError,
\* "fault" for any other exception, "commit" for the normal end.
Return(p, status, secret, how) ==
    /\ pc' = [pc EXCEPT ![p] = "done"]
    /\ resp' = [resp EXCEPT ![p] = [status |-> status, secret |-> secret, how |-> how]]
    /\ tx' = [tx EXCEPT ![p] = NoTx]
    /\ loop' = [w \in Workers |-> IF loop[w] = p THEN 0 ELSE loop[w]]

\* A request arrives and handler p starts to serve it. Handlers are numbered
\* in the order they start. req[p] holds what the handler uses of the request:
\* nothing of a payload whose signature fails, only the event type of a
\* webhook that is not allow-listed.
Arrive(p, kind, uid, pid, wk, sig, event) ==
    /\ pc[p] = "idle"
    /\ \A q \in Handlers : q < p => pc[q] # "idle"
    /\ req' = [req EXCEPT ![p] = [kind |-> kind, uid |-> uid, pid |-> pid, wk |-> wk,
                                  sig |-> sig, event |-> event]]
    /\ before' = [before EXCEPT ![p] = Done]

Goto(p, next) == pc' = [pc EXCEPT ![p] = next]

\* RevokeAll with an UPDATE that has no WHERE clause.
RevokeAll_EveryTenant(p, next) ==
    LET rows == IF tx[p].scan = << >> THEN DOMAIN keys ELSE tx[p].scan[1]
    IN  IF rows \cap LockedByOthers(p) = {}
        THEN /\ tx' = [tx EXCEPT ![p].locked = rows, ![p].scan = << >>]
             /\ pc' = [pc EXCEPT ![p] = next]
        ELSE /\ tx[p].scan = << >>
             /\ tx' = [tx EXCEPT ![p].scan = <<rows>>]
             /\ pc' = pc

\* RevokeAll with an UPDATE whose WHERE clause matches no row.
RevokeAll_NoRows(p, next) ==
    /\ tx' = tx
    /\ pc' = [pc EXCEPT ![p] = next]

\* UPDATE api_keys SET is_active = FALSE WHERE user_id = :uid
\* The statement updates the tenant's rows that were committed when it
\* started. While another open transaction holds a lock on one of them it
\* waits, and goes on with the same rows once the lock is gone; the rows it
\* updates stay locked until the session ends.
RevokeAll(p, next) ==
    LET rows == IF tx[p].scan = << >> THEN KeyIdsOf(req[p].uid) ELSE tx[p].scan[1]
    IN  IF rows \cap LockedByOthers(p) = {}
        THEN /\ tx' = [tx EXCEPT ![p].locked = rows, ![p].scan = << >>]
             /\ pc' = [pc EXCEPT ![p] = next]
        ELSE /\ tx[p].scan = << >>
             /\ tx' = [tx EXCEPT ![p].scan = <<rows>>]
             /\ pc' = pc

\* create_api_key that also sets is_active = TRUE on the tenant's rows.
create_api_key_Reactivates(uid, raw_key, is_unlimited, plan, by) ==
    keys' = Append([i \in DOMAIN keys |->
                        IF keys[i].uid = uid THEN [keys[i] EXCEPT !.active = TRUE]
                        ELSE keys[i]],
                   KeyRow(uid, raw_key, is_unlimited, plan, by))

\* create_api_key: INSERT INTO api_keys and commit, in a session of its own.
create_api_key(uid, raw_key, is_unlimited, plan, by) ==
    keys' = Append(keys, KeyRow(uid, raw_key, is_unlimited, plan, by))

\* AlreadyProcessed with the SELECT comparing the wrong column.
AlreadyProcessed_WrongColumn(pid) == \E i \in DOMAIN payments : payments[i].oid = pid

\* SELECT 1 FROM payments WHERE razorpay_payment_id = :pid LIMIT 1
AlreadyProcessed(pid) == \E i \in DOMAIN payments : payments[i].pid = pid

\* DuplicatePayment with no uniqueness constraint on the table.
DuplicatePayment_NoConstraint(pid) == FALSE

\* The uniqueness constraint on payments.razorpay_payment_id: an INSERT of a
\* payment id that a committed row holds raises IntegrityError ...
DuplicatePayment(pid) == \E i \in DOMAIN payments : payments[i].pid = pid

\* ... and one that an open transaction has inserted waits for that
\* transaction to end.
InsertWaits(p, pid) ==
    \E q \in Procs \ {p} : tx[q].pay # << >> /\ tx[q].pay[1].pid = pid

PaymentRow(uid, pid, oid, amount, plan) ==
    [uid |-> uid, pid |-> pid, oid |-> oid, amount |-> amount, plan |-> plan]

\* ------------------------------------------------------------------ API/server.py
\* The exception handlers of the app: the response an exception a route (or
\* a dependency) raises is turned into.
auth_handler(exc) == [status_code |-> 401, error |-> "Unauthorized", message |-> exc]

database_handler(exc) ==
    [status_code |-> 500, error |-> "DatabaseError",
     message |-> "A database error occurred"]

\* ------------------------------------------------------------------ create-first
\* POST /v1/api-keys/create, up to the SELECT for an active key.
CreateFirstBegin(p, uid) ==
    /\ Arrive(p, "create_first", uid, "none", 0, "none", "none")
    /\ IF ActiveKeysOf(uid) # {}
       THEN Return(p, auth_handler("API key already exists").error, NoSecret, "select")
       ELSE Goto(p, "cf_create") /\ UNCHANGED <<resp, tx, loop>>
    /\ UNCHANGED <<keys, payments, faults, gate_vars>>

CreateFirstCreate(p) ==
    /\ pc[p] = "cf_create"
    /\ LET raw_key == generate_api_key(p) IN
        /\ create_api_key(req[p].uid, raw_key, TRUE, "test", p)
        /\ Return(p, "api_key", raw_key, "commit")
    /\ UNCHANGED <<payments, req, before, faults, gate_vars>>

\* ------------------------------------------------------------------ masked list
\* SelectMyKeys without LIMIT 1: every active key of the caller.
SelectMyKeys_NoLimit(uid) ==
    LET RECURSIVE Desc(_)
        Desc(ids) == IF ids = {} THEN << >>
                     ELSE LET i == CHOOSE i \in ids : \A j \in ids : j <= i
                          IN  <<i>> \o Desc(ids \ {i})
    IN  Desc(ActiveKeysOf(uid))

\* SELECT ... FROM api_keys WHERE user_id = :uid AND is_active = TRUE
\* ORDER BY created_at DESC LIMIT 1: the ids of the rows selected. The rows
\* of keys are in the order of their creation.
SelectMyKeys(uid) ==
    LET act == ActiveKeysOf(uid)
    IN  IF act = {} THEN << >>
        ELSE <<CHOOSE i \in act : \A j \in act : j <= i>>

\* api_key_hash[-4:], the last four characters (all of a shorter string).
Last4(api_key_hash) ==
    SubSeq(api_key_hash,
           IF Len(api_key_hash) > 4 THEN Len(api_key_hash) - 3 ELSE 1,
           Len(api_key_hash))

\* f"orbynt-********{r['api_key_hash'][-4:]}"
MaskedKey(api_key_hash) == <<"orbynt-********">> \o Last4(api_key_hash)

\* GET /v1/api-keys/me: the masked keys of the caller, read from the
\* committed rows in one SELECT.
list_my_keys(p, uid) ==
    /\ Arrive(p, "list_my_keys", uid, "none", 0, "none", "none")
    /\ Return(p, "keys", NoSecret, "select")
    /\ LET rows == SelectMyKeys(uid)
       IN  thr' = [thr EXCEPT ![p].out =
                      [n \in DOMAIN rows |->
                          [id |-> rows[n],
                           key |-> MaskedKey(keys[rows[n]].hash),
                           is_active |-> keys[rows[n]].active,
                           is_unlimited |-> keys[rows[n]].unlimited,
                           expires_at |-> keys[rows[n]].expires,
                           plan |-> keys[rows[n]].plan]]]
    /\ UNCHANGED <<keys, payments, faults, cfg, http, cache, usage, ocdbs, memory,
                   graph, points, alone, clock, engine>>

\* ------------------------------------------------------------------ regenerate
\* POST /v1/api-keys/regenerate: the require_auth dependency, passed with the
\* tenant's identity assertion and a raw secret a response has shown it.
RegenerateBegin(p, uid) ==
    /\ \E secret \in Known(uid) :
            require_auth(cfg.mode, uid, Bearer(secret), Clock).ok
    /\ Arrive(p, "regenerate", uid, "none", 0, "none", "none")
    /\ Goto(p, "rg_update")
    /\ UNCHANGED <<keys, payments, tx, resp, loop, faults, gate_vars>>

RegenerateUpdate(p) ==
    /\ pc[p] = "rg_update"
    /\ RevokeAll(p, "rg_create")
    /\ UNCHANGED <<keys, payments, req, resp, before, loop, faults, gate_vars>>

RegenerateCreate(p) ==
    /\ pc[p] = "rg_create"
    /\ LET raw_key == generate_api_key(p) IN
        /\ create_api_key(req[p].uid, raw_key, TRUE, "test", p)
    /\ Goto(p, "rg_commit")
    /\ UNCHANGED <<payments, req, tx, resp, before, loop, faults, gate_vars>>

RegenerateCommit(p) ==
    /\ pc[p] = "rg_commit"
    /\ keys' = CommittedKeys(p)
    /\ Return(p, "api_key", generate_api_key(p), "commit")
    /\ UNCHANGED <<payments, req, before, faults, gate_vars>>

\* ------------------------------------------------------------------ signatures
\* A signature is modelled by what the keyed hash decides about it: "good"
\* is the HMAC-SHA256 of the signed bytes under the shared secret, "bad" is
\* any other string and "missing" is no signature at all.
Signatures == {"missing", "bad", "good"}

\* razorpay_client.utility.verify_payment_signature: raises unless the
\* signature is the HMAC of "order_id|payment_id" under the key secret.
verify_payment_signature(sig) == sig = "good"

\* verify_signature that compares nothing.
verify_signature_Any(sig) == TRUE

\* verify_signature(raw_body, signature, webhook_secret)
verify_signature(sig) == sig = "good"

\* The event types the payment processor delivers, and the ones the webhook
\* processes.
EventTypes == {"payment.captured", "order.paid", "payment.failed"}

\* allow_list with the failed payments in it.
allow_list_Everything == EventTypes

allow_list == {"payment.captured", "order.paid"}

\* The handler does the same for "payment.captured" and for "order.paid": req
\* keeps one name, "listed", for the two.
EventClass(event) ==
    IF event \in {"payment.captured", "order.paid"} THEN "listed" ELSE event

\* OrderUserMismatch with the comparison left out.
OrderUserMismatch_Never(pid, uid) == FALSE

\* razorpay_client.order.fetch(order_id), then notes.get("uid") != uid
OrderUserMismatch(pid, uid) == OrderOf(pid).uid # uid

\* ------------------------------------------------------------------ verify
\* POST /v1/payments/verify, up to the idempotency SELECT. uid is the
\* subject of the caller's identity assertion; the payload names payment pid
\* and its order and carries signature sig.
VerifyBegin(p, pid, uid, sig) ==
    /\ Arrive(p, "verify", uid, IF verify_payment_signature(sig) THEN pid ELSE "none",
              0, sig, "none")
    /\ IF sig = "missing"
       THEN Return(p, "HTTP400", NoSecret, "fields")
       ELSE IF ~verify_payment_signature(sig)
       THEN Return(p, "HTTP400", NoSecret, "signature")
       ELSE IF OrderUserMismatch(pid, uid)
       THEN Return(p, "HTTP403", NoSecret, "mismatch")
       ELSE IF AlreadyProcessed(pid)
       THEN Return(p, "already_processed", NoSecret, "select")
       ELSE Goto(p, "vf_payment") /\ UNCHANGED <<resp, tx, loop>>
    /\ UNCHANGED <<keys, payments, faults, gate_vars>>

\* INSERT INTO payments; an IntegrityError is caught by "except Exception".
VerifyInsertPayment(p) ==
    /\ pc[p] = "vf_payment"
    /\ ~InsertWaits(p, req[p].pid)
    /\ IF DuplicatePayment(req[p].pid)
       THEN Return(p, "HTTP500", NoSecret, "integrity")
       ELSE /\ tx' = [tx EXCEPT ![p].pay =
                        <<PaymentRow(req[p].uid, req[p].pid, VerifyFields(req[p].pid).oid,
                                     VerifyFields(req[p].pid).amount,
                                     VerifyFields(req[p].pid).plan)>>]
            /\ Goto(p, "vf_update")
            /\ UNCHANGED <<resp, loop>>
    /\ UNCHANGED <<keys, payments, req, before, faults, gate_vars>>

VerifyUpdate(p) ==
    /\ pc[p] = "vf_update"
    /\ RevokeAll(p, "vf_commit")
    /\ UNCHANGED <<keys, payments, req, resp, before, loop, faults, gate_vars>>

\* INSERT INTO api_keys in the handler's own session, then db.commit(): the
\* ledger row, the deactivations and the new key are committed together.
VerifyCommit(p) ==
    /\ pc[p] = "vf_commit"
    /\ LET raw_key == generate_api_key(p) IN
        /\ keys' = Append(CommittedKeys(p),
                          KeyRow(req[p].uid, raw_key, TRUE, VerifyFields(req[p].pid).plan, p))
        /\ payments' = CommittedPayments(p)
        /\ Return(p, "api_key", raw_key, "commit")
    /\ UNCHANGED <<req, before, faults, gate_vars>>

\* What the payload of a webhook delivery carries: the payment entity with its
\* id and the uid in its notes, or one of the two missing.
Metadata == {"full", "no_payment_id", "no_uid"}

MissingMetadata_OnlyPaymentId(payment_id, uid) ==
    payment_id = "none"

\* "if not payment_id or not uid": return {"status": "error", ...}, before
\* any session is opened.
MissingMetadata(payment_id, uid) ==
    payment_id = "none" \/ uid = "none"

\* ------------------------------------------------------------------ webhook
\* POST /v1/webhooks/razorpay, up to the idempotency SELECT. The handler is a
\* coroutine that never awaits after it has read the body: it holds the
\* event loop of its worker until it returns (workers are interchangeable:
\* the delivery goes to the first one whose loop is free). sig is the
\* X-Razorpay-Signature header; the payload carries event type event and
\* payment pid with its notes, as far as meta says. A delivery that is answered
\* before the ledger is read leaves no payment id in req, and a uid only if
\* the metadata check read one.
WebhookBegin(p, pid, w, sig, event, meta) ==
    /\ loop[w] = 0
    /\ \A v \in Workers : v < w => loop[v] # 0
    /\ LET payment_id == IF meta = "no_payment_id" THEN "none" ELSE pid
           uid == IF meta = "no_uid" THEN "none" ELSE PaymentEntity(pid).notes.uid
           signed == sig # "missing" /\ verify_signature(sig)
           listed == signed /\ event \in allow_list
           missing == listed /\ MissingMetadata(payment_id, uid)
       IN
        /\ IF listed /\ ~missing
           THEN Arrive(p, "webhook", uid, payment_id, w, sig, EventClass(event))
           ELSE Arrive(p, "webhook", IF listed THEN uid ELSE "none", "none", 0, sig,
                       IF signed THEN EventClass(event) ELSE "none")
        /\ IF ~listed \/ missing \/ AlreadyProcessed(payment_id)
           THEN /\ pc' = [pc EXCEPT ![p] = "done"]
                /\ resp' = [resp EXCEPT ![p] =
                      IF sig = "missing"
                          THEN [status |-> "HTTP400", secret |-> NoSecret, how |-> "fields"]
                      ELSE IF ~signed
                          THEN [status |-> "HTTP401", secret |-> NoSecret,
                                how |-> "signature"]
                      ELSE IF ~listed
                          THEN [status |-> "ignored", secret |-> NoSecret, how |-> "event"]
                      ELSE IF missing
                          THEN [status |-> "error", secret |-> NoSecret,
                                how |-> "metadata"]
                      ELSE [status |-> "already_processed", secret |-> NoSecret,
                            how |-> "select"]]
                /\ UNCHANGED loop
           ELSE /\ Goto(p, "wh_payment")
                /\ loop' = [loop EXCEPT ![w] = p]
                /\ UNCHANGED resp
    /\ UNCHANGED <<keys, payments, tx, faults, gate_vars>>

\* INSERT INTO payments; "except IntegrityError" answers already_processed.
WebhookInsertPayment(p) ==
    /\ pc[p] = "wh_payment"
    /\ ~InsertWaits(p, req[p].pid)
    /\ IF DuplicatePayment(req[p].pid)
       THEN Return(p, "already_processed", NoSecret, "integrity")
       ELSE /\ tx' = [tx EXCEPT ![p].pay =
                        <<PaymentRow(req[p].uid, req[p].pid, WebhookFields(req[p].pid).oid,
                                     WebhookFields(req[p].pid).amount,
                                     WebhookFields(req[p].pid).plan)>>]
            /\ Goto(p, "wh_update")
            /\ UNCHANGED <<resp, loop>>
    /\ UNCHANGED <<keys, payments, req, before, faults, gate_vars>>

WebhookUpdate(p) ==
    /\ pc[p] = "wh_update"
    /\ RevokeAll(p, "wh_create")
    /\ UNCHANGED <<keys, payments, req, resp, before, loop, faults, gate_vars>>

\* create_api_key(...): the raw key it returns is dropped.
WebhookCreate(p) ==
    /\ pc[p] = "wh_create"
    /\ create_api_key(req[p].uid, generate_api_key(p), TRUE,
                      WebhookFields(req[p].pid).plan, p)
    /\ Goto(p, "wh_commit")
    /\ UNCHANGED <<payments, req, tx, resp, before, loop, faults, gate_vars>>

WebhookCommit(p) ==
    /\ pc[p] = "wh_commit"
    /\ keys' = CommittedKeys(p)
    /\ payments' = CommittedPayments(p)
    /\ Return(p, "success", NoSecret, "commit")
    /\ UNCHANGED <<req, before, faults, gate_vars>>

\* ------------------------------------------------------------------ failures
\* The statement handler p is about to run (an execute, create_api_key or
\* commit) raises an error other than IntegrityError: the handler's except
\* branch rolls the session db back and answers with a server error.
ErrorStatus_Acknowledged(kind) == "error"

ErrorStatus(kind) ==
    IF kind \in {"create_first", "regenerate"}
    THEN database_handler("DatabaseError").error
    ELSE "HTTP500"

Fail(p) ==
    /\ pc[p] \notin {"idle", "done"}
    /\ faults < MaxFaults
    /\ faults' = faults + 1
    /\ Return(p, ErrorStatus(req[p].kind), NoSecret, "fault")
    /\ UNCHANGED <<keys, payments, req, before, gate_vars>>

\* ------------------------------------------------------------------ specification
\* The database is empty, or tenant U1 owns the key an earlier create-first
\* call (handler 0) returned.
SeedKey == KeyRow("U1", generate_api_key(0), TRUE, "test", 0)

Init ==
    \E seeded \in BOOLEAN :
        /\ keys = IF seeded THEN <<SeedKey>> ELSE << >>
        /\ payments = << >>
        /\ pc = [p \in Procs |-> IF seeded /\ p = 0 THEN "done" ELSE "idle"]
        /\ req = [p \in Procs |->
                    IF seeded /\ p = 0
                    THEN [NoReq EXCEPT !.kind = "create_first", !.uid = "U1"]
                    ELSE NoReq]
        /\ tx = [p \in Procs |-> NoTx]
        /\ resp = [p \in Procs |->
                    IF seeded /\ p = 0
                    THEN [status |-> "api_key", secret |-> generate_api_key(0),
                          how |-> "commit"]
                    ELSE NoResp]
        /\ before = [p \in Procs |-> {}]
        /\ loop = [w \in Workers |-> 0]
        /\ faults = 0
        /\ cfg = [mode |-> OCDB_MODE]
        /\ http = [p \in Procs |-> NoHttp]
        /\ cache = NoCache
        /\ usage = NoCache
        /\ ocdbs = NoHandles
        /\ memory = {}
        /\ graph = {}
        /\ points = {}
        /\ alone = NoStores
        /\ clock = 0
        /\ thr = [p \in Procs |-> NoThr]
        /\ engine = "none"

Next ==
    \/ \E p \in Handlers, uid \in Tenants : CreateFirstBegin(p, uid)
    \/ \E p \in Handlers : CreateFirstCreate(p)
    \/ \E p \in Handlers, uid \in Tenants : list_my_keys(p, uid)
    \/ \E p \in Handlers, uid \in Tenants : RegenerateBegin(p, uid)
    \/ \E p \in Handlers : RegenerateUpdate(p)
    \/ \E p \in Handlers : RegenerateCreate(p)
    \/ \E p \in Handlers : RegenerateCommit(p)
    \/ \E p \in Handlers, pid \in PaymentIds, uid \in Tenants, sig \in Signatures :
            VerifyBegin(p, pid, uid, sig)
    \/ \E p \in Handlers : VerifyInsertPayment(p)
    \/ \E p \in Handlers : VerifyUpdate(p)
    \/ \E p \in Handlers : VerifyCommit(p)
    \/ \E p \in Handlers, pid \in PaymentIds, w \in Workers, sig \in Signatures,
            event \in EventTypes, meta \in Metadata :
            WebhookBegin(p, pid, w, sig, event, meta)
    \/ \E p \in Handlers : WebhookInsertPayment(p)
    \/ \E p \in Handlers : WebhookUpdate(p)
    \/ \E p \in Handlers : WebhookCreate(p)
    \/ \E p \in Handlers : WebhookCommit(p)
    \/ \E p \in Handlers : Fail(p)

Spec == Init /\ [][Next]_vars

\* ------------------------------------------------------------------ the front door
\* One request to a route behind Depends(require_auth) (POST /v1/memory/set),
\* from the middleware to the route: the query parameters and headers it
\* carries, the deployment mode and the api_keys row it meets are the inputs.
QueryNames == {"page", "key", "api_key", "ApiKey", "X-API-KEY"}
Queries == {{}, {"page"}, {"key"}, {"api_key"}, {"page", "ApiKey"}, {"X-API-KEY"}}

forbidden == {"api_key", "apikey", "x-api-key"}

\* The X-Firebase-Token header: absent, the assertion of a tenant, or a
\* string the identity provider rejects.
Tokens == {"none", "bogus"} \cup Tenants

\* The Authorization header: absent, the seeded key as a bearer token, a key
\* no row holds, the seeded key under another scheme, a key with another
\* prefix.
AuthzHeaders ==
    {NoHeader,
     Bearer(generate_api_key(0)),
     Bearer(generate_api_key(1)),
     [scheme |-> "Basic", key |-> generate_api_key(0)],
     Bearer([prefix |-> "sk-", token |-> 0])}

\* datetime.now() when the gate runs, and the expires_at a row may hold.
Times == {1, 2, 3}
ExpiryTimes == {NULL, 2}

\* block_query_api_keys: 400 for a query parameter named like an API key,
\* call_next(request) otherwise.
block_query_api_keys(p) ==
    /\ pc[p] = "middleware"
    /\ IF \E key \in http[p].query : lower(key) \in forbidden
       THEN Return(p, "HTTP400", NoSecret, "middleware")
       ELSE Goto(p, "gate") /\ UNCHANGED <<resp, tx, loop>>
    /\ UNCHANGED <<keys, payments, req, before, faults, gate_vars>>

\* RequireAuth that lets the request through whatever the gate decides.
RequireAuth_FailOpen(p, now) ==
    /\ pc[p] = "gate"
    /\ http' = [http EXCEPT ![p].now = now,
                            ![p].auth = require_auth(cfg.mode, http[p].token,
                                                     http[p].authz, now)]
    /\ thr' = [thr EXCEPT ![p].calls = require_auth(cfg.mode, http[p].token,
                                                    http[p].authz, now).calls]
    /\ Goto(p, "handler")
    /\ UNCHANGED <<keys, payments, req, tx, resp, before, loop, faults, cfg, cache,
                   usage, ocdbs, memory, graph, points, alone, clock, engine>>

\* The dependency require_auth runs before the route: it attaches the context
\* to request.state.auth and hands it to the route, or raises 401 with the
\* reason of the AuthError.
RequireAuth(p, now) ==
    /\ pc[p] = "gate"
    /\ LET r == require_auth(cfg.mode, http[p].token, http[p].authz, now) IN
         IF r.ok
         THEN /\ http' = [http EXCEPT ![p].now = now, ![p].auth = r]
              /\ Goto(p, "handler")
              /\ UNCHANGED <<resp, tx, loop>>
         ELSE /\ http' = [http EXCEPT ![p].now = now]
              /\ Return(p, r.status, NoSecret, r.why)
    /\ thr' = [thr EXCEPT ![p].calls =
                  require_auth(cfg.mode, http[p].token, http[p].authz, now).calls]
    /\ UNCHANGED <<keys, payments, req, before, faults, cfg, cache, usage, ocdbs,
                   memory, graph, points, alone, clock, engine>>

\* ------------------------------------------------------------------ the data routes
\* The routes of ocdb_routes.py and, for graph_dump, the handle method no
\* route calls; the engine each goes to.
Operations ==
    {"memory_set", "memory_get", "memory_keys", "memory_delete",
     "vector_add", "vector_search",
     "graph_add", "graph_path", "graph_dump",
     "safety_scan"}

Range(f) == {f[i] : i \in DOMAIN f}

Engines == {"memory", "vector", "graph", "safety"}

EngineOf(kind) ==
    CASE kind \in {"memory_set", "memory_get", "memory_keys", "memory_delete"} -> "memory"
      [] kind \in {"vector_add", "vector_search"} -> "vector"
      [] kind \in {"graph_add", "graph_path", "graph_dump"} -> "graph"
      [] OTHER -> "safety"

\* auth["uid"]: the tenant of the context the gate returned (None in local
\* mode).
Uid(p) == http[p].auth.uid

\* One call of a handle to a backend: user_id is the tenant id it passes as
\* argument, payload tag or result filter ("none": it passes none), ids are
\* the identifiers it passes.
BackendCall(backend, op, user_id, ids) ==
    [backend |-> backend, op |-> op, user_id |-> user_id, ids |-> ids]

\* What every step of a route leaves alone.
route_rest == <<keys, payments, before, faults, cfg, http, usage, engine>>

\* Thread p, back from the router, runs the body of route kind. A request the
\* model admits as "data" gets its route here: up to here every route runs
\* the same code.
Route(p, kind) ==
    /\ pc[p] = "call"
    /\ req[p].kind \in {"data", kind}
    /\ EngineOf(kind) = engine
    /\ req' = [req EXCEPT ![p].kind = kind]

\* The tenant whose reads are compared with what they would be had no other
\* tenant written (the code treats all tenants alike).
Observer == "U1"

\* The stores thread p is compared against: alone for the observer, the
\* stores themselves for any other uid.
Mine(p) ==
    IF Uid(p) = Observer THEN alone
    ELSE [memory |-> memory,
          index |-> [i \in DOMAIN ocdbs[Uid(p)] |-> ocdbs[Uid(p)][i].index],
          graph |-> graph]

\* The route returns: 200 with the body out. The model keeps the bodies the
\* observer receives.
Reply(p, out, ref, calls) ==
    /\ Return(p, "ok", NoSecret, "handler")
    /\ thr' = [thr EXCEPT ![p].out = IF Uid(p) = Observer THEN out ELSE << >>,
                          ![p].ref = IF Uid(p) = Observer THEN ref ELSE << >>,
                          ![p].calls = calls]

\* alone after a write of uid u that sets its field f to val.
Solo(u, f, val) == IF u = Observer THEN [alone EXCEPT ![f] = val] ELSE alone

\* ------------------------------------------------------------------ tenant router
\* ocdb = _OCDB_CACHE.get(uid); if ocdb is None: ...
get_ocdb_for_user(p) ==
    /\ pc[p] = "handler"
    /\ IF Uid(p) \in DOMAIN cache
       THEN /\ thr' = [thr EXCEPT ![p].ocdb = cache[Uid(p)]]
            /\ Goto(p, "call")
       ELSE /\ Goto(p, "construct")
            /\ UNCHANGED thr
    /\ UNCHANGED <<route_rest, req, tx, resp, loop, cache, ocdbs, memory, graph, points, alone,
                   clock>>

\* ocdb = OCDB(uid): a new handle with a vector index of its own.
OCDB(p) ==
    /\ pc[p] = "construct"
    /\ ocdbs' = [ocdbs EXCEPT ![Uid(p)] = Append(@, [uid |-> Uid(p), index |-> << >>])]
    /\ alone' = Solo(Uid(p), "index", Append(Mine(p).index, << >>))
    /\ thr' = [thr EXCEPT ![p].ocdb = Len(ocdbs[Uid(p)]) + 1]
    /\ Goto(p, "register")
    /\ UNCHANGED <<route_rest, req, tx, resp, loop, cache, memory, graph, points, clock>>

\* _OCDB_CACHE[uid] = ocdb; return ocdb
CacheSet(p) ==
    /\ pc[p] = "register"
    /\ cache' = [u \in DOMAIN cache \cup {Uid(p)} |->
                    IF u = Uid(p) THEN thr[p].ocdb ELSE cache[u]]
    /\ Goto(p, "call")
    /\ UNCHANGED <<route_rest, req, tx, resp, loop, thr, ocdbs, memory, graph, points, alone,
                   clock>>

\* ------------------------------------------------------------------ memory engine
MaxClock == 2

MemoryKeys == <<"k1">>
Values == {"v1", "v2"}
Ttls == {NULL, 1}

\* DELETE FROM memory WHERE expires_at IS NOT NULL AND expires_at < now
cleanup_expired_rows(rows, now) ==
    {r \in rows : ~(r.expires_at # NULL /\ r.expires_at < now)}

\* INSERT INTO memory ... ON CONFLICT(user_id, key) DO UPDATE
memory_set(rows, key, value, user_id, ttl_seconds, now) ==
    {r \in rows : ~(r.user_id = user_id /\ r.key = key)}
        \cup {[user_id |-> user_id, key |-> key, value |-> value,
               expires_at |-> IF ttl_seconds = NULL THEN NULL ELSE now + ttl_seconds]}

\* memory_get whose SELECT has no user_id in its WHERE clause.
memory_get_AnyTenant(rows, key, user_id) ==
    LET hit == {r \in rows : r.key = key}
    IN  IF hit = {} THEN << >> ELSE <<(CHOOSE r \in hit : TRUE).value>>

\* SELECT value FROM memory WHERE user_id = ? AND key = ?
memory_get(rows, key, user_id) ==
    LET hit == {r \in rows : r.user_id = user_id /\ r.key = key}
    IN  IF hit = {} THEN << >> ELSE <<(CHOOSE r \in hit : TRUE).value>>

\* SELECT key FROM memory WHERE user_id = ?
memory_keys(rows, user_id) ==
    SelectSeq(MemoryKeys, LAMBDA k : \E r \in rows : r.user_id = user_id /\ r.key = k)

\* DELETE FROM memory WHERE user_id = ? AND key = ?
memory_delete(rows, key, user_id) ==
    {r \in rows : ~(r.user_id = user_id /\ r.key = key)}

\* The first statement of the backend's set, get and keys: _cleanup_expired
\* deletes the expired rows of every tenant and commits. The writes of the
\* tenants other than Observer are the only requests alone does not see.
cleanup_expired(p, kind) ==
    /\ Route(p, kind)
    /\ memory' = cleanup_expired_rows(memory, clock)
    /\ alone' = IF Uid(p) = Observer \/ kind # "memory_set"
                THEN [alone EXCEPT !.memory = cleanup_expired_rows(@, clock)]
                ELSE alone
    /\ Goto(p, "stmt")
    /\ UNCHANGED <<route_rest, tx, resp, loop, thr, cache, ocdbs, graph, points, clock>>

\* POST /v1/memory/set, from the INSERT on. The column user_id is NOT NULL:
\* with the uid None of local mode the INSERT raises, which the backend turns
\* into DatabaseError. A ttl is one that runs out before the clock stops.
set_memory(p, key, value, ttl) ==
    /\ pc[p] = "stmt"
    /\ req[p].kind = "memory_set"
    /\ UNCHANGED req
    /\ ttl # NULL => clock + ttl < MaxClock
    /\ IF Uid(p) = "none"
       THEN /\ Return(p, database_handler("Memory set error").error, NoSecret, "handler")
            /\ UNCHANGED <<memory, alone, thr>>
       ELSE /\ memory' = memory_set(memory, key, value, Uid(p), ttl, clock)
            /\ alone' = Solo(Uid(p), "memory",
                             memory_set(Mine(p).memory, key, value, Uid(p), ttl, clock))
            /\ Reply(p, << >>, << >>,
                     <<BackendCall("memory", "set", Uid(p), {})>>)
    /\ UNCHANGED <<route_rest, cache, ocdbs, graph, points, clock>>

\* GET /v1/memory/get, from the SELECT on.
get_memory(p, key) ==
    /\ pc[p] = "stmt"
    /\ req[p].kind = "memory_get"
    /\ UNCHANGED req
    /\ Reply(p, memory_get(memory, key, Uid(p)),
                memory_get(Mine(p).memory, key, Uid(p)),
                <<BackendCall("memory", "get", Uid(p), {})>>)
    /\ UNCHANGED <<route_rest, cache, ocdbs, memory, graph, points, alone, clock>>

\* GET /v1/memory/keys, from the SELECT on.
list_memory_keys(p) ==
    /\ pc[p] = "stmt"
    /\ req[p].kind = "memory_keys"
    /\ UNCHANGED req
    /\ Reply(p, memory_keys(memory, Uid(p)), memory_keys(Mine(p).memory, Uid(p)),
                <<BackendCall("memory", "keys", Uid(p), {})>>)
    /\ UNCHANGED <<route_rest, cache, ocdbs, memory, graph, points, alone, clock>>

\* DELETE /v1/memory/delete: ocdb.memory.delete(key, user_id=auth["uid"]).
delete_memory(p, key) ==
    /\ Route(p, "memory_delete")
    /\ memory' = memory_delete(memory, key, Uid(p))
    /\ alone' = Solo(Uid(p), "memory", memory_delete(Mine(p).memory, key, Uid(p)))
    /\ Reply(p, << >>, << >>, <<BackendCall("memory", "delete", Uid(p), {})>>)
    /\ UNCHANGED <<route_rest, cache, ocdbs, graph, points, clock>>

\* Time passes.
Tick ==
    /\ engine = "memory"
    /\ clock < MaxClock
    /\ clock' = clock + 1
    /\ UNCHANGED <<keys, payments, pc, req, tx, resp, before, loop, faults, cfg, http,
                   cache, usage, ocdbs, memory, graph, points, alone, engine, thr>>

\* ------------------------------------------------------------------ vector engine
MaxVectors == 2

Texts == {"t1", "t2"}
Ks == {1, 2}

\* index.add(vector); _payloads.append(payload)
add_text(index, text, payload) == Append(index, [text |-> text, payload |-> payload])

\* The L2 distance of the embeddings _embed draws from the hash of the text:
\* 0 for the same text.
distance(query, text) == IF query = text THEN 0 ELSE 1

\* index.search(vector, k): the k nearest entries, nearest first.
search(index, query, k) ==
    LET near == SelectSeq(index, LAMBDA e : distance(query, e.text) = 0)
        far == SelectSeq(index, LAMBDA e : distance(query, e.text) # 0)
        ranked == near \o far
        n == IF k < Len(ranked) THEN k ELSE Len(ranked)
    IN  [i \in 1..n |-> [payload |-> ranked[i].payload]]

\* self.vector_engine of the handle thread p holds: the index constructed
\* with it.
Handle(p) == ocdbs[Uid(p)][thr[p].ocdb]

vector_engine(p) == Handle(p).index

\* The vectors all the indexes hold.
RECURSIVE Total(_)
Total(us) ==
    IF us = {} THEN 0
    ELSE LET u == CHOOSE v \in us : TRUE
             RECURSIVE Sum(_)
             Sum(i) == IF i = 0 THEN 0 ELSE Len(ocdbs[u][i].index) + Sum(i - 1)
         IN  Sum(Len(ocdbs[u])) + Total(us \ {u})

\* OCDB.vector_search: the results whose payload carries the handle's uid.
vector_search_results(index, uid, query, k) ==
    SelectSeq(search(index, query, k), LAMBDA r : r.payload.user_id = uid)

\* POST /v1/vector/add: the payload is tagged with the handle's uid.
vector_add(p, text) ==
    /\ Route(p, "vector_add")
    /\ LET h == thr[p].ocdb
           payload == [id |-> "d1", user_id |-> Handle(p).uid]
       IN  /\ Total(DOMAIN ocdbs) < MaxVectors
           /\ ocdbs' = [ocdbs EXCEPT ![Uid(p)][h].index = add_text(@, text, payload)]
           /\ alone' = Solo(Uid(p), "index",
                            [Mine(p).index EXCEPT ![h] = add_text(@, text, payload)])
           /\ Reply(p, << >>, << >>,
                    <<BackendCall("vector", "add_text", payload.user_id, {})>>)
    /\ UNCHANGED <<route_rest, cache, memory, graph, points, clock>>

\* POST /v1/vector/search
vector_search(p, query, k) ==
    /\ Route(p, "vector_search")
    /\ LET h == thr[p].ocdb IN
        Reply(p, vector_search_results(vector_engine(p), Handle(p).uid, query, k),
                 vector_search_results(Mine(p).index[h], Handle(p).uid, query, k),
                 <<BackendCall("vector", "search", Handle(p).uid, {})>>)
    /\ UNCHANGED <<route_rest, cache, ocdbs, memory, graph, points, alone, clock>>

\* ------------------------------------------------------------------ graph engine
NodeIds == {"a", "b"}
None == ""
Parents == {None, "a"}

\* OCDB._ns: f"{self.uid}:{key}"
ns(uid, key) == uid \o ":" \o key

\* graph.add_node(id, content, parent): the node and its edge from parent.
add_node(nodes, id, parent) ==
    {n \in nodes : n.id # id} \cup {[id |-> id, parent |-> parent]}

\* The nodes from n up along the parent edges, n first, at most d of them.
RECURSIVE Ancestors(_, _, _)
Ancestors(nodes, n, d) ==
    LET hit == {m \in nodes : m.id = n}
    IN  IF d = 0 \/ hit = {} THEN << >>
        ELSE <<n>> \o Ancestors(nodes, (CHOOSE m \in hit : TRUE).parent, d - 1)

\* graph.get_path(start, end): the nodes from start down to end, or none.
get_path(nodes, start, end) ==
    LET up == Ancestors(nodes, end, Cardinality(nodes))
        at == {i \in DOMAIN up : up[i] = start}
    IN  IF at = {} THEN << >>
        ELSE LET i == CHOOSE j \in at : TRUE
             IN  [j \in 1..i |-> up[i + 1 - j]]

\* graph.export(): every node the backend holds.
export(nodes) == nodes

\* POST /v1/graph/add_step
graph_add_step(p, node_id, parent) ==
    /\ Route(p, "graph_add")
    /\ parent # node_id
    /\ LET uid == Handle(p).uid
           id == ns(uid, node_id)
           par == IF parent = None THEN None ELSE ns(uid, parent)
       IN  /\ graph' = add_node(graph, id, par)
           /\ alone' = Solo(Uid(p), "graph", add_node(Mine(p).graph, id, par))
           /\ Reply(p, << >>, << >>,
                    <<BackendCall("graph", "add_node", "none", {id, par} \ {None})>>)
    /\ UNCHANGED <<route_rest, cache, ocdbs, memory, points, clock>>

\* GET /v1/graph/path
graph_path(p, node_a, node_b) ==
    /\ Route(p, "graph_path")
    /\ LET uid == Handle(p).uid
           start == ns(uid, node_a)
           end == ns(uid, node_b)
       IN  Reply(p, get_path(graph, start, end), get_path(Mine(p).graph, start, end),
                    <<BackendCall("graph", "get_path", "none", {start, end})>>)
    /\ UNCHANGED <<route_rest, cache, ocdbs, memory, graph, points, alone, clock>>

\* OCDB.graph_dump: return self.graph.export()
graph_dump(p) ==
    /\ Route(p, "graph_dump")
    /\ Reply(p, <<export(graph)>>, <<export(Mine(p).graph)>>,
                <<BackendCall("graph", "export", "none", {})>>)
    /\ UNCHANGED <<route_rest, cache, ocdbs, memory, graph, points, alone, clock>>

\* ------------------------------------------------------------------ safety engine
\* safety_event_engine.scan(text): the events the classifier finds.
scan(text) == IF text = "t2" THEN <<[tag |-> "pii", severity |-> 1]>> ELSE << >>

\* safety_timeseries.add_point(tag, severity)
add_point(series, tag, severity) == series \cup {[tag |-> tag, severity |-> severity]}

\* POST /v1/safety/scan: scan(text), then one point per event.
safety_scan(p, text) ==
    /\ Route(p, "safety_scan")
    /\ LET events == scan(text) IN
        /\ points' = IF events = << >> THEN points
                     ELSE add_point(points, events[1].tag, events[1].severity)
        /\ Reply(p, events, events,
                 <<BackendCall("safety", "scan", "none", {})>>
                    \o [i \in DOMAIN events |->
                            BackendCall("safety_timeseries", "add_point", "none", {})])
    /\ UNCHANGED <<route_rest, cache, ocdbs, memory, graph, alone, clock>>

\* ------------------------------------------------------------------ usage recorder
\* increment_usage with INSERT OR REPLACE: the row is written anew.
increment_usage_Overwrite(table, api_key_id) ==
    [k \in DOMAIN table \cup {api_key_id} |->
        IF k = api_key_id THEN 1 ELSE table[k]]

\* INSERT INTO api_usage ... ON CONFLICT (api_key_id) DO UPDATE SET count =
\* api_usage.count + 1
increment_usage(table, api_key_id) ==
    [k \in DOMAIN table \cup {api_key_id} |->
        IF k = api_key_id
        THEN (IF k \in DOMAIN table THEN table[k] + 1 ELSE 1)
        ELSE table[k]]

\* The response usage_tracker passes on when recording raised.
tracked_response_Raises(response, raised) ==
    IF raised
    THEN [status |-> database_handler("Usage tracking failed").error,
          secret |-> NoSecret, how |-> "usage"]
    ELSE response

\* try: ... increment_usage(...) except Exception: pass; return response
tracked_response(response, raised) == response

\* The row of api_key_id is locked by the statement of another session that
\* has not ended: INSERT ... ON CONFLICT DO UPDATE waits for it and then
\* updates the count that session committed.
UsageLocked(p, api_key_id) == \E q \in Procs \ {p} : thr[q].pending = api_key_id

\* The middleware usage_tracker, after call_next has returned the response:
\* a context with an api_key_id is counted, and increment_usage runs up to
\* its db.execute; raised tells whether the statement raises.
usage_tracker(p, raised) ==
    /\ pc[p] = "done"
    /\ req[p].kind \in Operations
    /\ ~thr[p].tracked /\ thr[p].pending = 0
    /\ LET auth == http[p].auth
           counted == auth.ok /\ auth.api_key_id # 0
       IN  /\ ~counted => ~raised
           /\ IF counted /\ ~raised
              THEN /\ ~UsageLocked(p, auth.api_key_id)
                   /\ thr' = [thr EXCEPT ![p].pending = auth.api_key_id]
                   /\ resp' = resp
              ELSE /\ thr' = [thr EXCEPT ![p].tracked = TRUE]
                   /\ resp' = [resp EXCEPT ![p] = tracked_response(@, raised)]
    /\ UNCHANGED <<keys, payments, pc, req, tx, before, loop, faults, cfg, http, cache,
                   usage, ocdbs, memory, graph, points, alone, clock, engine>>

\* db.commit() of increment_usage, or the rollback when it raises, and the
\* return of usage_tracker.
usage_commit(p, raised) ==
    /\ thr[p].pending # 0
    /\ usage' = IF raised THEN usage ELSE increment_usage(usage, thr[p].pending)
    /\ thr' = [thr EXCEPT ![p].pending = 0, ![p].tracked = TRUE,
                          ![p].recorded = ~raised]
    /\ resp' = [resp EXCEPT ![p] = tracked_response(@, raised)]
    /\ UNCHANGED <<keys, payments, pc, req, tx, before, loop, faults, cfg, http, cache,
                   ocdbs, memory, graph, points, alone, clock, engine>>

\* The api_keys table holds one row, tenant U1's key, in any of the states a
\* row can be in; one request has reached the server.
GateInit ==
    \E m \in {"local", "cloud"}, active \in BOOLEAN, unlimited \in BOOLEAN,
       expires \in ExpiryTimes, p \in Handlers, query \in Queries,
       token \in Tokens, authz \in AuthzHeaders :
        /\ cfg = [mode |-> m]
        /\ keys = <<[SeedKey EXCEPT !.active = active, !.unlimited = unlimited,
                                    !.expires = expires]>>
        /\ payments = << >>
        /\ pc = [q \in Procs |-> IF q = p THEN "middleware" ELSE "idle"]
        /\ req = [q \in Procs |->
                    IF q = p THEN [NoReq EXCEPT !.kind = "memory_set"] ELSE NoReq]
        /\ http = [q \in Procs |->
                    IF q = p
                    THEN [NoHttp EXCEPT !.query = query, !.token = token, !.authz = authz]
                    ELSE NoHttp]
        /\ tx = [q \in Procs |-> NoTx]
        /\ resp = [q \in Procs |-> NoResp]
        /\ before = [q \in Procs |-> {}]
        /\ loop = [w \in Workers |-> 0]
        /\ faults = 0
        /\ cache = NoCache
        /\ usage = NoCache
        /\ ocdbs = NoHandles
        /\ memory = {}
        /\ graph = {}
        /\ points = {}
        /\ alone = NoStores
        /\ clock = 0
        /\ thr = [q \in Procs |-> NoThr]
        /\ engine = "memory"

GateNext ==
    \/ \E p \in Handlers : block_query_api_keys(p)
    \/ \E p \in Handlers, now \in Times : RequireAuth(p, now)
    \/ \E p \in Handlers : get_ocdb_for_user(p)
    \/ \E p \in Handlers : OCDB(p)
    \/ \E p \in Handlers : CacheSet(p)
    \/ \E p \in Handlers : cleanup_expired(p, "memory_set")
    \/ \E p \in Handlers, key \in Range(MemoryKeys), value \in Values, ttl \in Ttls :
            set_memory(p, key, value, ttl)
    \/ \E p \in Handlers, raised \in BOOLEAN : usage_tracker(p, raised)
    \/ \E p \in Handlers, raised \in BOOLEAN : usage_commit(p, raised)

GateSpec == GateInit /\ [][GateNext]_vars

\* ------------------------------------------------------------------ the data plane
\* The raw secret of the key tenant uid holds when the behaviour starts.
SeedSecret(uid) == IF uid = "U1" THEN generate_api_key(0) ELSE generate_api_key(-1)

\* The threads of the pool that run the data routes.
Threads == {1, 2}

\* A request with the two proofs of tenant uid reaches its route, on the
\* first thread of the pool that is free, with the context require_auth
\* returns for it.
Admit(p, uid) ==
    /\ pc[p] \in {"idle", "done"}
    /\ \A q \in Threads : q < p => pc[q] \notin {"idle", "done"}
    /\ req' = [req EXCEPT ![p] = [NoReq EXCEPT !.kind = "data"]]
    /\ http' = [http EXCEPT ![p] =
                    [NoHttp EXCEPT !.token = uid, !.authz = Bearer(SeedSecret(uid)),
                                   !.now = 1,
                                   !.auth = require_auth(cfg.mode, uid,
                                                         Bearer(SeedSecret(uid)), 1)]]
    /\ thr' = [thr EXCEPT ![p] = NoThr]
    /\ resp' = [resp EXCEPT ![p] = NoResp]
    /\ Goto(p, "handler")
    /\ UNCHANGED <<keys, payments, tx, before, loop, faults, cfg, cache, usage, ocdbs,
                   memory, graph, points, alone, clock, engine>>

\* Cloud mode; each tenant holds an active key; no handle, no row, no node
\* exists. The requests of one behaviour all go to one engine: the engines
\* share no state.
DataInit ==
    \E e \in Engines :
        /\ cfg = [mode |-> "cloud"]
        /\ keys = <<SeedKey, KeyRow("U2", SeedSecret("U2"), TRUE, "test", 0)>>
        /\ payments = << >>
        /\ pc = [p \in Procs |-> "idle"]
        /\ req = [p \in Procs |-> NoReq]
        /\ http = [p \in Procs |-> NoHttp]
        /\ tx = [p \in Procs |-> NoTx]
        /\ resp = [p \in Procs |-> NoResp]
        /\ before = [p \in Procs |-> {}]
        /\ loop = [w \in Workers |-> 0]
        /\ faults = 0
        /\ cache = NoCache
        /\ usage = NoCache
        /\ ocdbs = NoHandles
        /\ memory = {}
        /\ graph = {}
        /\ points = {}
        /\ alone = NoStores
        /\ clock = 0
        /\ thr = [p \in Procs |-> NoThr]
        /\ engine = e

DataNext ==
    \/ \E p \in Threads, uid \in Tenants : Admit(p, uid)
    \/ \E p \in Threads : get_ocdb_for_user(p)
    \/ \E p \in Threads : OCDB(p)
    \/ \E p \in Threads : CacheSet(p)
    \/ \E p \in Threads, kind \in {"memory_set", "memory_get", "memory_keys"} :
            cleanup_expired(p, kind)
    \/ \E p \in Threads, key \in Range(MemoryKeys), value \in Values, ttl \in Ttls :
            set_memory(p, key, value, ttl)
    \/ \E p \in Threads, key \in Range(MemoryKeys) : get_memory(p, key)
    \/ \E p \in Threads : list_memory_keys(p)
    \/ \E p \in Threads, key \in Range(MemoryKeys) : delete_memory(p, key)
    \/ Tick
    \/ \E p \in Threads, text \in Texts : vector_add(p, text)
    \/ \E p \in Threads, query \in Texts, k \in Ks : vector_search(p, query, k)
    \/ \E p \in Threads, node_id \in NodeIds, parent \in Parents :
            graph_add_step(p, node_id, parent)
    \/ \E p \in Threads, node_a \in NodeIds, node_b \in NodeIds :
            graph_path(p, node_a, node_b)
    \/ \E p \in Threads : graph_dump(p)
    \/ \E p \in Threads, text \in Texts : safety_scan(p, text)

DataSpec == DataInit /\ [][DataNext]_vars

\* ------------------------------------------------------------------ usage counting
\* The requests whose responses usage_tracker observes: each was sent by a
\* tenant with its key, or with an identity assertion that is rejected, and
\* has been answered.
Observed(who) ==
    LET auth == require_auth("cloud", who, Bearer(SeedSecret(who)), 1)
    IN  [req |-> [NoReq EXCEPT !.kind = "memory_get"],
         http |-> [NoHttp EXCEPT !.token = who, !.authz = Bearer(SeedSecret(who)),
                                 !.now = 1,
                                 !.auth = IF auth.ok THEN auth ELSE NoAuth],
         resp |-> IF auth.ok
                  THEN [status |-> "ok", secret |-> NoSecret, how |-> "handler"]
                  ELSE [status |-> auth.status, secret |-> NoSecret, how |-> auth.why]]

UsageInit ==
    \E who \in [Procs -> Tenants \cup {"bogus"}] :
        /\ cfg = [mode |-> "cloud"]
        /\ keys = <<SeedKey, KeyRow("U2", SeedSecret("U2"), TRUE, "test", 0)>>
        /\ payments = << >>
        /\ pc = [p \in Procs |-> "done"]
        /\ req = [p \in Procs |-> Observed(who[p]).req]
        /\ http = [p \in Procs |-> Observed(who[p]).http]
        /\ tx = [p \in Procs |-> NoTx]
        /\ resp = [p \in Procs |-> Observed(who[p]).resp]
        /\ before = [p \in Procs |-> {}]
        /\ loop = [w \in Workers |-> 0]
        /\ faults = 0
        /\ cache = NoCache
        /\ usage = NoCache
        /\ ocdbs = NoHandles
        /\ memory = {}
        /\ graph = {}
        /\ points = {}
        /\ alone = NoStores
        /\ clock = 0
        /\ thr = [p \in Procs |-> NoThr]
        /\ engine = "memory"

UsageNext ==
    \/ \E p \in Procs, raised \in BOOLEAN : usage_tracker(p, raised)
    \/ \E p \in Procs, raised \in BOOLEAN : usage_commit(p, raised)

UsageSpec == UsageInit /\ [][UsageNext]_vars

\* ------------------------------------------------------------------ redelivery
\* The payment processor delivers the webhook of one captured payment, and
\* delivers it again after a delivery that was answered with a server error.
\* The tables when the first delivery arrives: empty; the tenant's first key;
\* the key of an earlier regeneration; the ledger entry and the key of an
\* earlier finalization of PAY_B.
Histories == {"none", "seeded", "rotated", "paid"}

EarlierKey(plan, by) == KeyRow("U1", generate_api_key(by), TRUE, plan, 0)

ReconInit ==
    \E history \in Histories :
        /\ keys = CASE history = "none" -> << >>
                    [] history = "seeded" -> <<SeedKey>>
                    [] history = "rotated" ->
                         <<[SeedKey EXCEPT !.active = FALSE], EarlierKey("test", -1)>>
                    [] history = "paid" ->
                         <<[SeedKey EXCEPT !.active = FALSE],
                           EarlierKey(OrderOf("PAY_B").plan, -1)>>
        /\ payments = IF history = "paid"
                      THEN <<PaymentRow("U1", "PAY_B", VerifyFields("PAY_B").oid,
                                        VerifyFields("PAY_B").amount,
                                        VerifyFields("PAY_B").plan)>>
                      ELSE << >>
        /\ pc = [p \in Procs |-> IF history # "none" /\ p = 0 THEN "done" ELSE "idle"]
        /\ req = [p \in Procs |->
                    IF history # "none" /\ p = 0
                    THEN [NoReq EXCEPT !.kind = "create_first", !.uid = "U1"]
                    ELSE NoReq]
        /\ tx = [p \in Procs |-> NoTx]
        /\ resp = [p \in Procs |->
                    IF history # "none" /\ p = 0
                    THEN [status |-> "api_key", secret |-> generate_api_key(0),
                          how |-> "commit"]
                    ELSE NoResp]
        /\ before = [p \in Procs |-> {}]
        /\ loop = [w \in Workers |-> 0]
        /\ faults = 0
        /\ cfg = [mode |-> OCDB_MODE]
        /\ http = [p \in Procs |-> NoHttp]
        /\ cache = NoCache
        /\ usage = NoCache
        /\ ocdbs = NoHandles
        /\ memory = {}
        /\ graph = {}
        /\ points = {}
        /\ alone = NoStores
        /\ clock = 0
        /\ thr = [p \in Procs |-> NoThr]
        /\ engine = "none"

\* The first delivery of a payment's webhook, or a redelivery: the delivery
\* before it was answered with a server error.
Deliver(p, pid, w, event) ==
    /\ \/ p = 1
       \/ /\ p > 1 /\ pc[p - 1] = "done"
          /\ req[p - 1].pid = pid
          /\ resp[p - 1].status = "HTTP500"
    /\ WebhookBegin(p, pid, w, "good", event, "full")

\* A transient failure: it does not outlast the deliveries of the processor.
FailTransient(p) ==
    /\ \E q \in Handlers : pc[q] = "idle"
    /\ Fail(p)

Deliveries ==
    \/ \E p \in Handlers, pid \in PaymentIds, w \in Workers, event \in allow_list :
            Deliver(p, pid, w, event)
    \/ \E p \in Handlers : WebhookInsertPayment(p)
    \/ \E p \in Handlers : WebhookUpdate(p)
    \/ \E p \in Handlers : WebhookCreate(p)
    \/ \E p \in Handlers : WebhookCommit(p)

ReconNext ==
    \/ Deliveries
    \/ \E p \in Handlers : FailTransient(p)

\* The handler of a delivery runs to its end, and the processor delivers.
ReconSpec == ReconInit /\ [][ReconNext]_vars /\ WF_vars(Deliveries)


\* ------------------------------------------------------------------ properties
\* What the formulas below read off the state.
LedgerRowsOf(pid) == {i \in DOMAIN payments : payments[i].pid = pid}
KeysMintedFor(pid) == {i \in DOMAIN keys : req[keys[i].by].pid = pid}
KeysWrittenBy(p) == {i \in DOMAIN keys : keys[i].by = p}
Finished(p) == pc[p] = "done"
Concurrent(p, q) == p # q /\ p \notin before[q] /\ q \notin before[p]

\* Request r passes the checks that come before the ledger: its signature is
\* valid, a verify call is made by the tenant of the order, a webhook carries
\* an allow-listed event, a payment id and a uid.
Admitted(r) ==
    /\ r.kind \in {"verify", "webhook"}
    /\ r.sig = "good"
    /\ r.kind = "verify" => r.uid = OrderOf(r.pid).uid
    /\ r.kind = "webhook" => r.event = "listed" /\ r.pid # "none"

\* C1: every tenant has at most one committed api_keys row that is active.
C1_SingleActiveKey ==
    \A t \in Tenants : Cardinality(ActiveKeysOf(t)) <= 1

\* C2: at most one api_keys row is ever committed on behalf of a payment id,
\* whatever verify calls and webhook deliveries arrive for it.
C2_AtMostOneKeyPerPayment ==
    \A pid \in PaymentIds : Cardinality(KeysMintedFor(pid)) <= 1

\* C3: the committed ledger holds at most one row per payment id.
C3_LedgerUnique ==
    \A pid \in PaymentIds : Cardinality(LedgerRowsOf(pid)) <= 1

\* A verify call and a webhook delivery for one payment both passed the
\* idempotency check; one committed the ledger row and the other ran into it.
C3_Witness ==
    \E p, q \in Procs :
        /\ Concurrent(p, q) /\ Finished(p) /\ Finished(q)
        /\ req[p].kind = "verify" /\ req[q].kind = "webhook"
        /\ req[p].pid = req[q].pid
        /\ {resp[p].how, resp[q].how} = {"commit", "integrity"}
        /\ Cardinality(LedgerRowsOf(req[p].pid)) = 1

\* C4: a handler whose ledger INSERT runs into the uniqueness violation
\* answers already_processed, on the verify path and on the webhook path, and
\* that step changes no api_keys row and no ledger row.
C4_LoserDowngraded ==
    [][\A p \in Procs :
          (pc[p] \in {"vf_payment", "wh_payment"} /\ pc'[p] = "done"
              /\ resp'[p].how = "integrity")
          => /\ resp'[p].status = "already_processed"
             /\ resp'[p].secret = NoSecret
             /\ keys' = keys /\ payments' = payments
             /\ KeysWrittenBy(p) = {}]_vars

\* C5: a verify call or webhook delivery (one that passes the signature,
\* tenant and event checks) that arrives when the ledger holds its payment id
\* returns already_processed at once and leaves the ledger, every api_keys
\* row and its own session untouched.
C5_ReplayIsNoOp ==
    [][\A p \in Procs :
          (pc[p] = "idle" /\ pc'[p] # "idle"
              /\ Admitted(req'[p])
              /\ LedgerRowsOf(req'[p].pid) # {})
          => /\ pc'[p] = "done"
             /\ resp'[p].status = "already_processed"
             /\ resp'[p].secret = NoSecret
             /\ keys' = keys /\ payments' = payments
             /\ tx'[p] = NoTx]_vars

\* The spec's scenario: verify minted the key for a payment, a webhook for
\* the same payment came afterwards and was answered already_processed, and
\* the tenant's active key is still the one verify minted.
C5_Witness ==
    \E p, q \in Procs :
        /\ req[p].kind = "verify" /\ req[q].kind = "webhook"
        /\ req[p].pid = req[q].pid /\ p \in before[q]
        /\ Finished(q) /\ resp[p].status = "api_key"
        /\ resp[q].status = "already_processed" /\ resp[q].how = "select"
        /\ ActiveKeysOf(req[p].uid) = KeysWrittenBy(p)
        /\ KeysWrittenBy(p) # {}

\* C6: of the handlers that served payment id P and returned (other than by an
\* internal error), the one that committed the ledger row is the only one
\* whose response carries a raw secret, every other one answers
\* already_processed, and no raw secret is in two responses.
C6_OnlyWinnerGetsSecret ==
    /\ \A p \in Procs :
          (Finished(p) /\ Admitted(req[p]) /\ resp[p].how # "fault")
          => \/ resp[p].how = "commit"
             \/ resp[p].status = "already_processed" /\ resp[p].secret = NoSecret
    /\ \A p, q \in Procs :
          (p # q /\ Finished(p) /\ Finished(q) /\ resp[p].secret # NoSecret)
          => resp[p].secret # resp[q].secret

\* C7: a regenerate that ended in an error has left nothing behind: no
\* api_keys row written by it is committed.
C7_RegenerateAllOrNothing ==
    \A p \in Procs :
        (Finished(p) /\ req[p].kind = "regenerate" /\ resp[p].how = "fault")
        => KeysWrittenBy(p) = {}

\* C8: in every committed state a key minted for payment id P exists exactly
\* when the ledger holds P's row.
C8_FinalizationAtomic ==
    \A pid \in PaymentIds : (KeysMintedFor(pid) # {}) <=> (LedgerRowsOf(pid) # {})

\* C9: two webhook deliveries for distinct payments of one tenant that ran
\* concurrently and both succeeded, with every other handler either not
\* started or finished before both: two ledger rows and one active key.
C9_TwoWebhooksOneActiveKey ==
    \A p, q \in Procs :
        ( /\ Concurrent(p, q)
          /\ req[p].kind = "webhook" /\ req[q].kind = "webhook"
          /\ req[p].pid # req[q].pid /\ req[p].uid = req[q].uid
          /\ Finished(p) /\ Finished(q)
          /\ resp[p].status = "success" /\ resp[q].status = "success"
          /\ \A r \in Procs \ {p, q} : pc[r] = "idle" \/ r \in before[p] \cap before[q] )
        => /\ Len(payments) = 2
           /\ Cardinality(ActiveKeysOf(req[p].uid)) = 1

\* C10: regenerate q for tenant T started after regenerate p for T had
\* returned, both returned a key, and every other handler of T had returned
\* before q started: the two secrets differ, the only active key of T is the
\* one q wrote, and the auth gate rejects p's secret.
C10_RegenerateTwice ==
    \A p, q \in Procs :
        ( /\ req[p].kind = "regenerate" /\ req[q].kind = "regenerate"
          /\ req[p].uid = req[q].uid
          /\ p \in before[q] /\ Finished(q)
          /\ resp[p].status = "api_key" /\ resp[q].status = "api_key"
          /\ \A r \in Procs \ {p, q} :
                (pc[r] # "idle" /\ req[r].uid = req[q].uid) => r \in before[q] )
        => /\ resp[p].secret # resp[q].secret
           /\ ActiveKeysOf(req[q].uid) = KeysWrittenBy(q)
           /\ Cardinality(KeysWrittenBy(q)) = 1
           /\ require_auth("cloud", req[q].uid, Bearer(resp[p].secret), Clock).status
                  = "Unauthorized"
           /\ require_auth("cloud", req[q].uid, Bearer(resp[q].secret), Clock).status
                  = "ok"

C10_Witness ==
    \E p, q \in Procs :
        /\ req[p].kind = "regenerate" /\ req[q].kind = "regenerate"
        /\ req[p].uid = req[q].uid
        /\ p \in before[q] /\ Finished(q)
        /\ resp[p].status = "api_key" /\ resp[q].status = "api_key"
        /\ validate_request("cloud", req[q].uid, Bearer(resp[p].secret), Clock).why
               = "API key is disabled"

\* C11: a create-first call for a tenant without an active key goes on to
\* persist one new active key of that tenant and returns its raw secret; one
\* for a tenant that has an active key is answered Conflict, and that step
\* leaves every api_keys row as it was.
C11_CreateFirst ==
    [][\A p \in Procs :
          /\ (pc[p] = "idle" /\ pc'[p] # "idle" /\ req'[p].kind = "create_first")
             => IF ActiveKeysOf(req'[p].uid) # {}
                THEN /\ pc'[p] = "done"
                     /\ resp'[p].status = "Conflict"
                     /\ resp'[p].secret = NoSecret
                     /\ keys' = keys
                ELSE pc'[p] = "cf_create" /\ keys' = keys
          /\ (pc[p] = "cf_create" /\ pc'[p] = "done" /\ resp'[p].how = "commit")
             => /\ resp'[p].status = "api_key"
                /\ resp'[p].secret # NoSecret
                /\ Len(keys') = Len(keys) + 1
                /\ SubSeq(keys', 1, Len(keys)) = keys
                /\ keys'[Len(keys')].uid = req[p].uid
                /\ keys'[Len(keys')].active
                /\ keys'[Len(keys')].hash = hash_key(resp'[p].secret)]_vars

\* What a handler that has just started and answered at once has left alone:
\* every api_keys row, the ledger and every session.
Untouched == keys' = keys /\ payments' = payments /\ tx' = tx

Starts(p) == pc[p] = "idle" /\ pc'[p] # "idle"

\* C18: a verify call or webhook delivery whose signature is missing or does
\* not validate is rejected in its first step, returns no secret, and leaves
\* the ledger, every api_keys row and every session as they were.
C18_BadSignatureRejected ==
    [][\A p \in Procs :
          (Starts(p) /\ req'[p].kind \in {"verify", "webhook"} /\ req'[p].sig # "good")
          => /\ pc'[p] = "done"
             /\ resp'[p].status \in {"HTTP400", "HTTP401"}
             /\ resp'[p].secret = NoSecret
             /\ Untouched]_vars

\* A webhook with a forged signature was rejected while a verify call was in
\* flight, holding an uncommitted ledger row.
C18_Witness ==
    \E p, q \in Procs :
        /\ req[p].kind = "webhook" /\ req[p].sig = "bad" /\ Finished(p)
        /\ resp[p].status = "HTTP401"
        /\ req[q].kind = "verify"
        /\ q \notin before[p] /\ pc[q] = "vf_update" /\ tx[q].pay # << >>

\* C19: a correctly signed verify call by a tenant other than the one the
\* order records is rejected (403) in its first step and leaves the ledger,
\* every api_keys row and every session as they were.
C19_CrossTenantRejected ==
    [][\A p \in Procs :
          (Starts(p) /\ req'[p].kind = "verify" /\ req'[p].sig = "good"
              /\ req'[p].uid # OrderOf(req'[p].pid).uid)
          => /\ pc'[p] = "done"
             /\ resp'[p].status = "HTTP403"
             /\ resp'[p].secret = NoSecret
             /\ Untouched]_vars

\* Tenant U2, who owns an active key, replayed the payment of tenant U1, who
\* owns one too; both keys are still active and the ledger is empty.
C19_Witness ==
    \E p \in Procs :
        /\ req[p].kind = "verify" /\ req[p].sig = "good" /\ Finished(p)
        /\ req[p].uid = "U2" /\ OrderOf(req[p].pid).uid = "U1"
        /\ resp[p].status = "HTTP403"
        /\ ActiveKeysOf("U1") # {} /\ ActiveKeysOf("U2") # {}
        /\ payments = << >>

\* C20: a correctly signed webhook whose event type is not allow-listed is
\* answered "ignored" in its first step, whatever payment it names, and leaves
\* the ledger, every api_keys row and every session as they were.
C20_UnlistedEventIgnored ==
    [][\A p \in Procs :
          (Starts(p) /\ req'[p].kind = "webhook" /\ req'[p].sig = "good"
              /\ req'[p].event \in EventTypes \ {"payment.captured", "order.paid"})
          => /\ pc'[p] = "done"
             /\ resp'[p].status = "ignored"
             /\ Untouched]_vars

\* A payment.failed event for a payment that is not in the ledger was
\* ignored: the tenant's key is still active and the ledger is still empty.
C20_Witness ==
    \E p \in Procs :
        /\ req[p].kind = "webhook" /\ req[p].sig = "good" /\ Finished(p)
        /\ req[p].event = "payment.failed"
        /\ resp[p].status = "ignored"
        /\ ActiveKeysOf("U1") # {}
        /\ payments = << >>

\* ------------------------------------------------------------------ the front door
\* Request p has been through the gate: it was answered there or went on to
\* the route.
InRoute(p) == pc[p] \in {"handler", "construct", "register", "call", "stmt"}

PastGate(p) == InRoute(p) \/ (Finished(p) /\ resp[p].how # "middleware")

\* The context the gate builds in local mode.
LocalContext ==
    [ok |-> TRUE, status |-> "ok", why |-> "local", uid |-> "none", api_key_id |-> 0,
     unlimited |-> TRUE, calls |-> << >>]

\* C12: in local mode every request that reaches the gate passes it, whatever
\* headers it carries, with the unlimited context that names no tenant and
\* after no call to the identity provider or the credential store; the gate
\* takes the local branch exactly when the deployment mode is local.
C12_LocalModeBypass ==
    \A p \in Procs :
        /\ (cfg.mode = "local" /\ PastGate(p))
           => /\ http[p].auth = LocalContext
              /\ resp[p].status # "Unauthorized"
        /\ PastGate(p)
           => ((cfg.mode = "local") <=> (http[p].auth.why = "local"))

\* A request with no Authorization header and a token the identity provider
\* rejects was served in local mode.
C12_Witness ==
    \E p \in Procs :
        /\ cfg.mode = "local" /\ Finished(p) /\ resp[p].how = "handler"
        /\ http[p].token = "bogus" /\ http[p].authz = NoHeader
        /\ http[p].auth = LocalContext
        /\ ~keys[1].active

\* C13: in cloud mode a request that carries exactly one of the two headers
\* is rejected at the gate as Unauthorized for the missing header, before any
\* call to the identity provider or the credential store, with no context
\* attached.
C13_BothProofsRequired ==
    \A p \in Procs :
        (cfg.mode = "cloud" /\ PastGate(p)
            /\ ((http[p].token = "none") # (http[p].authz = NoHeader)))
        => /\ Finished(p)
           /\ resp[p].status = "Unauthorized"
           /\ resp[p].how = "Missing Authorization or X-Firebase-Token"
           /\ http[p].auth = NoAuth
           /\ DOMAIN cache = {}

\* The request carried the active, unlimited key of U1 as a bearer token and
\* no identity assertion.
C13_Witness ==
    \E p \in Procs :
        /\ cfg.mode = "cloud" /\ Finished(p) /\ resp[p].status = "Unauthorized"
        /\ http[p].token = "none" /\ http[p].authz = Bearer(generate_api_key(0))
        /\ keys[1].active /\ keys[1].unlimited

\* C14: a cloud context for tenant U with api_key_id K is attached only if
\* the identity assertion verifies to U, the presented bearer secret hashes to
\* the digest of row K, row K belongs to U and is active, and row K is
\* unlimited or has no expiry or has one that is not before the time of the
\* check.
C14_CloudAuthSound ==
    \A p \in Procs :
        (http[p].auth.ok /\ http[p].auth.why = "cloud")
        => LET U == http[p].auth.uid
               K == http[p].auth.api_key_id
           IN  /\ U \in Tenants
               /\ verify_firebase_token(http[p].token) = U
               /\ K \in DOMAIN keys
               /\ http[p].authz.scheme = "Bearer"
               /\ keys[K].hash = hash_key(http[p].authz.key)
               /\ keys[K].uid = U
               /\ keys[K].active
               /\ \/ keys[K].unlimited
                  \/ keys[K].expires = NULL
                  \/ keys[K].expires >= http[p].now
               /\ http[p].auth.unlimited = keys[K].unlimited

\* A context was attached for a key that is not unlimited and expires at the
\* very time of the check.
C14_Witness ==
    \E p \in Procs :
        /\ http[p].auth.ok /\ http[p].auth.why = "cloud"
        /\ http[p].auth.uid = "U1" /\ http[p].auth.api_key_id = 1
        /\ ~keys[1].unlimited /\ keys[1].expires = http[p].now

\* The request that would pass the gate but for the expiry of the key.
ValidButForExpiry(p) ==
    /\ cfg.mode = "cloud" /\ PastGate(p)
    /\ http[p].token = "U1" /\ http[p].authz = Bearer(generate_api_key(0))
    /\ keys[1].uid = "U1" /\ keys[1].active
    /\ keys[1].expires # NULL /\ keys[1].expires < http[p].now

\* C15: a request that presents, with its owner's identity, an active key
\* whose expires_at is in the past is rejected as Unauthorized (expired) when
\* the key is not unlimited, and is given a context when it is unlimited.
C15_ExpiryIgnoredForUnlimited ==
    \A p \in Procs :
        ValidButForExpiry(p)
        => IF keys[1].unlimited
           THEN http[p].auth.ok /\ http[p].auth.api_key_id = 1
                    /\ http[p].auth.unlimited
           ELSE /\ Finished(p)
                /\ resp[p].status = "Unauthorized"
                /\ resp[p].how = "API key expired"
                /\ http[p].auth = NoAuth

\* The unlimited key, expired at time 2, was accepted at time 3 and the route
\* ran.
C15_Witness ==
    \E p \in Procs :
        /\ ValidButForExpiry(p) /\ keys[1].unlimited
        /\ keys[1].expires = 2 /\ http[p].now = 3
        /\ Finished(p) /\ resp[p].status = "ok" /\ DOMAIN cache = {"U1"}

\* C16: a request the cloud gate rejects is answered Unauthorized with no
\* context attached, the route has not run for it (no tenant handle exists, no
\* api_keys row and no ledger row has changed); a request is in the route, or
\* was answered by it, only with the context the gate attached.
C16_FailureAttachesNothing ==
    \A p \in Procs :
        /\ (cfg.mode = "cloud" /\ PastGate(p)
               /\ ~validate_request("cloud", http[p].token, http[p].authz, http[p].now).ok)
           => /\ Finished(p)
              /\ resp[p].status = "Unauthorized"
              /\ http[p].auth = NoAuth
              /\ DOMAIN cache = {}
              /\ Len(keys) = 1 /\ payments = << >>
        /\ (InRoute(p) \/ (Finished(p) /\ resp[p].how = "handler"))
           => /\ http[p].auth.ok
              /\ http[p].auth
                    = require_auth(cfg.mode, http[p].token, http[p].authz, http[p].now)

\* The owner presented a key that has been deactivated.
C16_Witness ==
    \E p \in Procs :
        /\ cfg.mode = "cloud" /\ Finished(p) /\ resp[p].status = "Unauthorized"
        /\ resp[p].how = "API key is disabled"
        /\ http[p].token = "U1" /\ http[p].authz = Bearer(generate_api_key(0))
        /\ http[p].auth = NoAuth /\ DOMAIN cache = {}

\* The query parameter names that present an API key.
ApiKeyParams == {"api_key", "ApiKey", "X-API-KEY"}

\* C17: a request with a query parameter named like an API key never reaches
\* the gate or the route: it is answered 400 by the middleware, with no
\* context attached and no tenant handle made, whatever headers it carries.
C17_QueryKeyBlocked ==
    \A p \in Procs :
        (http[p].query \cap ApiKeyParams # {})
        => /\ pc[p] \in {"middleware", "done"}
           /\ Finished(p) => /\ resp[p].status = "HTTP400"
                              /\ resp[p].how = "middleware"
           /\ http[p].auth = NoAuth
           /\ DOMAIN cache = {}

\* The request also carried the headers that pass the cloud gate.
C17_Witness ==
    \E p \in Procs :
        /\ Finished(p) /\ resp[p].status = "HTTP400"
        /\ http[p].query = {"page", "ApiKey"}
        /\ cfg.mode = "cloud"
        /\ require_auth("cloud", http[p].token, http[p].authz, 1).ok

\* ------------------------------------------------------------------ webhook metadata
\* C21: a correctly signed webhook with an allow-listed event whose payload
\* lacks the payment id or the uid is answered in its first step with the body
\* {"status": "error"}, not with a raised HTTP error, returns no secret, holds
\* no event loop, and leaves the ledger, every api_keys row and every session
\* as they were.
C21_MissingMetadataAcknowledged ==
    [][\A p \in Procs :
          (Starts(p) /\ req'[p].kind = "webhook" /\ req'[p].sig = "good"
              /\ req'[p].event = "listed"
              /\ (req'[p].pid = "none" \/ req'[p].uid = "none"))
          => /\ pc'[p] = "done"
             /\ resp'[p] = [status |-> "error", secret |-> NoSecret, how |-> "metadata"]
             /\ loop' = loop
             /\ Untouched]_vars

\* A signed, allow-listed delivery without a uid was acknowledged while
\* tenant U1 held an active key and the ledger was empty.
C21_Witness ==
    \E p \in Procs :
        /\ req[p].kind = "webhook" /\ req[p].sig = "good" /\ Finished(p)
        /\ req[p].event = "listed" /\ req[p].uid = "none"
        /\ resp[p].status = "error"
        /\ ActiveKeysOf("U1") # {}
        /\ payments = << >>

\* ------------------------------------------------------------------ the tenant router
\* Thread p is back from get_ocdb_for_user with a handle.
HasHandle(p) == pc[p] \in {"call", "stmt", "done"} /\ thr[p].ocdb # 0

\* C22: at most one handle is ever constructed for a tenant, and all the
\* callers of get_ocdb_for_user for that tenant, concurrent first callers
\* included, get that one handle.
C22_OneHandlePerTenant ==
    \A t \in Tenants :
        /\ Len(ocdbs[t]) <= 1
        /\ \A p, q \in Procs :
              (HasHandle(p) /\ HasHandle(q) /\ Uid(p) = t /\ Uid(q) = t)
              => thr[p].ocdb = thr[q].ocdb

\* C29: a handle registered for a tenant stays registered: no step removes
\* the tenant's entry from the cache or puts another handle in it, so every
\* later call returns that handle.
C29_RegisteredForGood ==
    [][\A t \in DOMAIN cache : t \in DOMAIN cache' /\ cache'[t] = cache[t]]_vars

\* ------------------------------------------------------------------ tenant isolation
\* The reads of the data plane.
Reads == {"memory_get", "memory_keys", "vector_search", "graph_path"}

\* C23: what a read of a tenant returns (memory get and keys, vector search,
\* graph path) is what it would have returned had no other tenant written.
C23_ReadsIsolated ==
    \A p \in Procs :
        (Finished(p) /\ req[p].kind \in Reads /\ Uid(p) = Observer)
        => thr[p].out = thr[p].ref

\* The call carries the tenant id: as user_id, or as the prefix of every
\* identifier it passes.
Scoped(call, uid) ==
    \/ call.user_id = uid
    \/ /\ call.ids # {}
       /\ \A id \in call.ids : \E key \in NodeIds : id = ns(uid, key)

\* C30: every call a handle makes to a backend, in every operation (memory
\* set, get, keys and delete, vector add and search, graph add, path and
\* dump, safety scan and its time-series write), carries the handle's tenant
\* id.
C30_EveryCallScoped ==
    \A p \in Procs :
        \A i \in DOMAIN thr[p].calls : Scoped(thr[p].calls[i], Uid(p))

\* C24: a failure of usage recording never changes the outcome of the request
\* it observes: the step of usage_tracker that follows the handler leaves the
\* response (status and body) as the handler produced it, whether
\* increment_usage succeeds or raises.
C24_RecordingNeverAltersResponse ==
    [][\A p \in Procs :
          (pc[p] = "done" /\ req[p].kind \in Operations
             /\ ~thr[p].tracked /\ thr'[p].tracked)
          => /\ resp'[p] = resp[p]
             /\ pc'[p] = "done"
             /\ thr'[p].out = thr[p].out]_vars

\* A request authenticated by a key record was answered by its handler, the
\* recorder ran and failed: nothing was counted and the response stands.
C24_Witness ==
    \E p \in Procs :
        /\ pc[p] = "done" /\ req[p].kind \in Operations
        /\ thr[p].tracked
        /\ http[p].auth.ok /\ http[p].auth.api_key_id # 0
        /\ http[p].auth.api_key_id \notin DOMAIN usage
        /\ resp[p].how = "handler"

\* C25: the raw secret of a key is returned only by the response of the
\* operation that created it and cannot be retrieved afterwards: a response
\* that shows a secret is that of the operation that wrote the key's row, the
\* rows of the store hold the digest of a secret and have no column for the
\* secret, and the masked list returns no secret and at most one entry, for
\* the most recent active key of the caller, whose key field is the mask
\* followed by the last 4 characters of the stored digest.
C25_SecretOnlyAtCreation ==
    /\ [](\A p \in Procs :
            (pc[p] = "done" /\ resp[p].secret # NoSecret)
            => \E i \in DOMAIN keys : /\ keys[i].by = p
                                      /\ keys[i].hash = hash_key(resp[p].secret))
    /\ [](\A i \in DOMAIN keys :
            /\ DOMAIN keys[i] = {"uid", "hash", "active", "unlimited", "expires",
                                 "plan", "by"}
            /\ keys[i].hash = hash_key(generate_api_key(keys[i].by)))
    /\ [][\A p \in Handlers :
            (pc[p] = "idle" /\ req'[p].kind = "list_my_keys")
            => LET out == thr'[p].out
                   act == ActiveKeysOf(req'[p].uid)
               IN  /\ pc'[p] = "done"
                   /\ resp'[p].secret = NoSecret
                   /\ Len(out) <= 1
                   /\ (out = << >>) <=> (act = {})
                   /\ out # << >> =>
                        LET h == keys[out[1].id].hash
                        IN  /\ out[1].id \in act
                            /\ \A j \in act : j <= out[1].id
                            /\ Len(h) > 4
                            /\ out[1].key = <<"orbynt-********">>
                                                \o SubSeq(h, Len(h) - 3, Len(h))]_vars

\* A tenant was shown the secret of the key an operation created for it and
\* then lists its keys: the one entry ends in the last 4 characters of that
\* secret's digest.
C25_Witness ==
    \E p, q \in Handlers :
        /\ pc[p] = "done" /\ req[p].kind = "list_my_keys"
        /\ pc[q] = "done" /\ q < p /\ req[q].uid = req[p].uid
        /\ resp[q].secret # NoSecret
        /\ Len(thr[p].out) = 1
        /\ thr[p].out[1].key = MaskedKey(hash_key(resp[q].secret))
        /\ resp[p].secret = NoSecret

\* The six checks of cloud mode in the order of the design, and the first of
\* them that request p fails ("none": it passes them all).
CheckOrder == <<"identity", "format", "lookup", "ownership", "active", "expiry">>

Fails(p, check) ==
    LET uid == verify_firebase_token(http[p].token)
        key == http[p].authz.key
        rows == {i \in DOMAIN keys : keys[i].hash = hash_key(key)}
    IN  CASE check = "identity" -> http[p].token \notin Tenants
          [] check = "format" -> key.prefix # "orbynt-"
          [] check = "lookup" -> rows = {}
          [] check = "ownership" -> \E i \in rows : keys[i].uid # uid
          [] check = "active" -> \E i \in rows : ~keys[i].active
          [] check = "expiry" -> \E i \in rows : /\ ~keys[i].unlimited
                                                 /\ keys[i].expires # 0
                                                 /\ keys[i].expires < http[p].now

FirstFailure(p) ==
    LET failing == {n \in DOMAIN CheckOrder : Fails(p, CheckOrder[n])}
    IN  IF failing = {} THEN "none"
        ELSE CheckOrder[CHOOSE n \in failing : \A m \in failing : n <= m]

ReasonOf(check) ==
    CASE check = "identity" -> "Invalid Firebase token"
      [] check = "format" -> "Invalid API key prefix"
      [] check = "lookup" -> "Invalid API key"
      [] check = "ownership" -> "API key does not belong to this user"
      [] check = "active" -> "API key is disabled"
      [] check = "expiry" -> "API key expired"
      [] check = "none" -> "cloud"

\* C26: cloud-mode checks run in the order identity verification, key-format
\* check, key lookup, ownership match, active-flag check, expiry check: when
\* the gate runs on a request that carries both headers, the key as a bearer
\* token, the rejection reason is that of the first check that fails in this
\* order, and no later check is evaluated; in particular the credential store
\* is not queried after a failed identity or format check.
C26_FirstFailingCheckDecides ==
    [][\A p \in Procs :
          (/\ pc[p] = "gate" /\ pc'[p] # "gate"
           /\ cfg.mode = "cloud"
           /\ http[p].token # "none"
           /\ http[p].authz.scheme = "Bearer")
          => LET first == FirstFailure(p)'
             IN  /\ (first = "none") <=> (pc'[p] = "handler")
                 /\ first = "none" => http'[p].auth.why = ReasonOf(first)
                 /\ first # "none" => /\ resp'[p].how = ReasonOf(first)
                                      /\ resp'[p].status = "Unauthorized"
                 /\ thr'[p].calls = IF first \in {"identity", "format"}
                                    THEN <<"verify_id_token">>
                                    ELSE <<"verify_id_token", "get_api_key_record">>]_vars

\* A request failed two checks, the key format and the lookup: it was
\* rejected for the first of them, without a query of the credential store.
C26_Witness ==
    \E p \in Procs :
        /\ cfg.mode = "cloud" /\ pc[p] = "done"
        /\ http[p].authz.scheme = "Bearer"
        /\ Fails(p, "format") /\ Fails(p, "lookup") /\ ~Fails(p, "identity")
        /\ resp[p].how = "Invalid API key prefix"
        /\ thr[p].calls = <<"verify_id_token">>

\* The operations that replace the keys of a tenant.
Rotations == {"regenerate", "verify", "webhook"}

\* C27: no state with zero active keys is observable after a commit: a tenant
\* that has an active key in the committed rows keeps one through every step
\* of every operation, so from the start of a regenerate, verify or webhook
\* operation on, between its steps and with several of them running for the
\* tenant, the committed rows hold an active key of the tenant.
C27_NeverZeroActiveKeys ==
    [][\A u \in Tenants : ActiveKeysOf(u) # {} => ActiveKeysOf(u)' # {}]_vars

\* Two rotations of one tenant that had an active key ran concurrently and
\* both committed: keys of the tenant were deactivated and it has an active
\* key.
C27_Witness ==
    \E p, q \in Handlers :
        /\ p # q /\ pc[p] = "done" /\ pc[q] = "done"
        /\ req[p].kind \in Rotations /\ req[q].kind \in Rotations
        /\ req[p].uid = req[q].uid /\ req[p].uid \in Tenants
        /\ resp[p].how = "commit" /\ resp[q].how = "commit"
        /\ q \notin before[p] /\ p \notin before[q]
        /\ \E i \in KeyIdsOf(req[p].uid) : ~keys[i].active
        /\ ActiveKeysOf(req[p].uid) # {}

\* C28: a webhook whose processing fails with an internal error other than
\* the duplicate-payment uniqueness violation is answered with a server
\* error and has its whole unit rolled back: no ledger entry, no deactivated
\* key and no new key of the delivery remains.
C28_FailedWebhookLeavesNothing ==
    [][\A p \in Handlers :
          (/\ req[p].kind = "webhook" /\ pc[p] \notin {"idle", "done"}
           /\ pc'[p] = "done" /\ resp'[p].how = "fault")
          => /\ resp'[p].status = "HTTP500"
             /\ tx'[p] = NoTx
             /\ payments' = payments
             /\ \A i \in DOMAIN keys' :
                    /\ keys'[i].by # p
                    /\ i \in DOMAIN keys /\ keys'[i].active = keys[i].active]_vars

\* The count of a key: 0 while api_usage has no row for it.
CountOf(k) == IF k \in DOMAIN usage THEN usage[k] ELSE 0

\* The recordings for key k that have succeeded.
RecordedFor(k) == {p \in Procs : thr[p].recorded /\ http[p].auth.api_key_id = k}

\* C31: a recording creates the counter row with count 1 when none exists and
\* otherwise increments it by exactly 1, so after n successful recordings for
\* a key its counter equals n, also when the recordings run concurrently; a
\* recording that fails or a request without a key record counts nothing.
C31_CounterEqualsRecordings ==
    /\ [](\A k \in DOMAIN keys : CountOf(k) = Cardinality(RecordedFor(k)))
    /\ [](DOMAIN usage \subseteq DOMAIN keys)
    /\ [][\A p \in Procs :
            (thr[p].pending # 0 /\ thr'[p].recorded)
            => LET k == thr[p].pending
               IN  /\ k \notin DOMAIN usage => usage'[k] = 1
                   /\ k \in DOMAIN usage => usage'[k] = usage[k] + 1
                   /\ \A j \in DOMAIN usage \ {k} : usage'[j] = usage[j]]_vars

\* Every request of the behaviour was sent with one key and recorded, the
\* last while the others had been observed: the counter equals their number.
C31_Witness ==
    \E k \in DOMAIN usage :
        /\ usage[k] = Cardinality(Procs)
        /\ \A p \in Procs : thr[p].recorded /\ http[p].auth.api_key_id = k

\* C32: API key records are never deleted, and an existing record is mutated
\* only in is_active: no step removes a record or changes its tenant id, key
\* hash, plan, is_unlimited or expires_at (or the handler that wrote it).
C32_RecordsOnlyToggle ==
    [][/\ Len(keys') >= Len(keys)
       /\ \A i \in DOMAIN keys :
            keys'[i] = [keys[i] EXCEPT !.active = keys'[i].active]]_vars

\* The seeded key has been deactivated by an operation that wrote a new key:
\* the record is still there, changed in is_active only.
C32_Witness ==
    /\ Len(keys) >= 2
    /\ keys[1] = [SeedKey EXCEPT !.active = FALSE]
    /\ \E p \in Handlers : pc[p] = "done" /\ resp[p].how = "commit"
                              /\ req[p].kind \in Rotations

\* The raw secret of key record i is in the response of a request.
Shown(i) == \E q \in Procs : Finished(q) /\ keys[i].hash = hash_key(resp[q].secret)

\* C33: every finalized payment leaves the tenant with a usable credential:
\* when a ledger entry for a payment is committed, the raw secret of a key
\* minted for it is in the response of some request, whichever entry point
\* inserted the entry; and no tenant is left, by a finalization that has
\* committed, with an active key whose raw secret was shown to nobody.
C33_PaidKeyIsShown ==
    /\ \A n \in DOMAIN payments :
            \E i \in KeysMintedFor(payments[n].pid) : Shown(i)
    /\ \A i \in DOMAIN keys :
            (/\ keys[i].active
             /\ req[keys[i].by].kind \in {"verify", "webhook"}
             /\ Finished(keys[i].by) /\ resp[keys[i].by].how = "commit")
            => Shown(i)

\* C34: concurrent create-first is exclusive: of the create-first calls for
\* one tenant that run concurrently, at most one creates a key and returns a
\* raw secret.
C34_CreateFirstExclusive ==
    \A p, q \in Handlers :
        (/\ Concurrent(p, q)
         /\ req[p].kind = "create_first" /\ req[q].kind = "create_first"
         /\ req[p].uid = req[q].uid)
        => ~(/\ KeysWrittenBy(p) # {} /\ KeysWrittenBy(q) # {}
             /\ resp[p].secret # NoSecret /\ resp[q].secret # NoSecret)

\* The secret of key record i, presented by its tenant, passes the gate.
Authenticates(i) ==
    require_auth("cloud", keys[i].uid, Bearer(generate_api_key(keys[i].by)), Clock).ok

\* C35: a deactivated key is never reactivated: a record whose is_active is
\* FALSE in a committed state has it FALSE after every step, and its secret
\* does not authenticate again.
C35_NeverReactivated ==
    [][\A i \in DOMAIN keys :
          ~keys[i].active => (~keys'[i].active /\ ~Authenticates(i)')]_vars

\* The seeded key was deactivated by one operation and a later operation of
\* the tenant has written a key after that: the seeded key is still inactive
\* and its secret is rejected.
C35_Witness ==
    /\ Len(keys) >= 3
    /\ ~keys[1].active /\ ~Authenticates(1)
    /\ \E p, q \in Handlers :
            /\ p \in before[q] /\ Finished(q)
            /\ req[p].uid = "U1" /\ req[q].uid = "U1"
            /\ KeysWrittenBy(p) # {} /\ KeysWrittenBy(q) # {}

\* C36: entitlement operations are tenant-local: a step of a create-first,
\* regenerate, verify or webhook operation for tenant A leaves every API key
\* record and every ledger entry of every other tenant as it is and writes
\* records of A only, however the operations interleave.
C36_TenantLocal ==
    [][\A p \in Handlers :
          (pc'[p] # pc[p] /\ req'[p].kind \in Rotations \cup {"create_first"})
          => /\ \A i \in DOMAIN keys :
                    keys[i].uid # req'[p].uid
                    => (i \in DOMAIN keys' /\ keys'[i] = keys[i])
             /\ \A i \in DOMAIN keys' \ DOMAIN keys : keys'[i].uid = req'[p].uid
             /\ \A n \in DOMAIN payments :
                    n \in DOMAIN payments' /\ payments'[n] = payments[n]
             /\ \A n \in DOMAIN payments' \ DOMAIN payments :
                    payments'[n].uid = req'[p].uid]_vars

\* Tenant U2 holds an active key, and a rotation of tenant U1 that started
\* after that key was written has committed and deactivated U1's seeded key.
C36_Witness ==
    \E p, q \in Handlers :
        /\ req[q].uid = "U2" /\ q \in before[p]
        /\ \E i \in KeysWrittenBy(q) : keys[i].uid = "U2" /\ keys[i].active
        /\ req[p].uid = "U1" /\ req[p].kind \in Rotations
        /\ Finished(p) /\ resp[p].how = "commit"
        /\ ~keys[1].active

\* The items of a vector index.
Items(index) == {index[n] : n \in DOMAIN index}

\* C37: writes through the router are not lost: the items that vector_add
\* has added through a handle of tenant T obtained from get_ocdb_for_user
\* are in the index of the handle a later get_ocdb_for_user(T) returns, the
\* one registered for T, also when T's first accesses were concurrent.
C37_VectorWritesKept ==
    \A t \in DOMAIN cache :
        \A h \in DOMAIN ocdbs[t] :
            Items(ocdbs[t][h].index) \subseteq Items(ocdbs[t][cache[t]].index)

\* What a finalization of payment pid persists, whichever entry point runs
\* it: the ledger entry and the fields of the new key record.
LedgerEntryOf(pid) ==
    [uid |-> OrderOf(pid).uid, pid |-> pid, oid |-> OrderOf(pid).oid,
     amount |-> OrderOf(pid).amount, plan |-> OrderOf(pid).plan]

KeyFields(row) ==
    [uid |-> row.uid, plan |-> row.plan, unlimited |-> row.unlimited,
     expires |-> row.expires]

Reconciled(pid, uid) ==
    /\ Cardinality(LedgerRowsOf(pid)) = 1
    /\ Cardinality(ActiveKeysOf(uid)) = 1

\* C39: eventual reconciliation: when the correctly signed, allow-listed
\* webhook of a payment is redelivered after every server-error response and
\* the failures are transient, then eventually, and from then on, the ledger
\* holds exactly one entry for the payment, the tenant has exactly one active
\* key, and a delivery has been acknowledged with success or
\* already-processed.
C39_EventuallyReconciled ==
    <>[](\E p \in Handlers :
            /\ req[p].kind = "webhook" /\ Finished(p)
            /\ resp[p].status \in {"success", "already_processed"}
            /\ Reconciled(req[p].pid, req[p].uid))

\* A delivery failed with a server error after its key was committed, and the
\* redelivery was processed as a first delivery and acknowledged: one ledger
\* entry, one active key.
C39_Witness ==
    \E p, q \in Handlers :
        /\ p < q /\ Finished(p) /\ Finished(q)
        /\ req[p].kind = "webhook" /\ req[q].kind = "webhook"
        /\ req[p].pid = req[q].pid
        /\ resp[p].status = "HTTP500" /\ KeysWrittenBy(p) # {}
        /\ resp[q].status = "success"
        /\ Reconciled(req[q].pid, req[q].uid)

\* ------------------------------------------------------------------ graph namespacing
\* Tenant ids are the uid claim of the identity token and node ids the
\* node_id, parent, node_a and node_b of the request: str, of any
\* characters; no code on the way to OCDB._ns validates or escapes them.
WideUids == {"u", "u:1"}
WideNodeIds == {"n", "1:n"}
WideParents == {None, "n"}

\* auth=Depends(require_auth): the gate returned the context of tenant uid
\* to a graph route, on the first thread of the pool that is free.
AdmitAs(p, uid) ==
    /\ pc[p] \in {"idle", "done"}
    /\ \A q \in Threads : q < p => pc[q] \notin {"idle", "done"}
    /\ req' = [req EXCEPT ![p] = [NoReq EXCEPT !.kind = "data"]]
    /\ http' = [http EXCEPT ![p] =
                    [NoHttp EXCEPT !.token = uid, !.now = 1,
                                   !.auth = [NoAuth EXCEPT !.ok = TRUE, !.status = "ok",
                                                           !.why = "cloud", !.uid = uid,
                                                           !.unlimited = TRUE]]]
    /\ thr' = [thr EXCEPT ![p] = NoThr]
    /\ resp' = [resp EXCEPT ![p] = NoResp]
    /\ Goto(p, "handler")
    /\ UNCHANGED <<keys, payments, tx, before, loop, faults, cfg, cache, usage, ocdbs,
                   memory, graph, points, alone, clock, engine>>

\* Cloud mode, the graph engine; no handle is constructed, no node exists.
NsInit ==
    /\ cfg = [mode |-> "cloud"]
    /\ keys = << >>
    /\ payments = << >>
    /\ pc = [p \in Procs |-> "idle"]
    /\ req = [p \in Procs |-> NoReq]
    /\ http = [p \in Procs |-> NoHttp]
    /\ tx = [p \in Procs |-> NoTx]
    /\ resp = [p \in Procs |-> NoResp]
    /\ before = [p \in Procs |-> {}]
    /\ loop = [w \in Workers |-> 0]
    /\ faults = 0
    /\ cache = NoCache
    /\ usage = NoCache
    /\ ocdbs = [u \in WideUids |-> << >>]
    /\ memory = {}
    /\ graph = {}
    /\ points = {}
    /\ alone = NoStores
    /\ clock = 0
    /\ thr = [p \in Procs |-> NoThr]
    /\ engine = "graph"

NsNext ==
    \/ \E p \in Threads, uid \in WideUids : AdmitAs(p, uid)
    \/ \E p \in Threads : get_ocdb_for_user(p)
    \/ \E p \in Threads : OCDB(p)
    \/ \E p \in Threads : CacheSet(p)
    \/ \E p \in Threads, node_id \in WideNodeIds, parent \in WideParents :
            graph_add_step(p, node_id, parent)
    \/ \E p \in Threads, node_a \in WideNodeIds, node_b \in WideNodeIds :
            graph_path(p, node_a, node_b)
    \/ \E p \in Threads : graph_dump(p)

NsSpec == NsInit /\ [][NsNext]_vars

\* The namespaced identifiers the graph request of thread p passed to the
\* graph backend.
Addressed(p) == UNION {c.ids : c \in Range(thr[p].calls)}

\* C40: graph namespacing is injective across tenants: the namespaced
\* identifier the handle of tenant A gives to a node id differs from the one
\* the handle of another tenant B gives to any node id, so the graph requests
\* of two tenants never pass the same identifier to the graph backend.
C40_NamespacesDisjoint ==
    \A p \in Threads, q \in Threads :
        (Finished(p) /\ Finished(q) /\ Uid(p) # Uid(q))
            => Addressed(p) \cap Addressed(q) = {}

====
